---- MODULE Spec2Model ----
(***************************************************************************)
(* A model of mcp-whaileys: the declaration index of src/ast-parser.ts     *)
(* (class AstParser) and the request handling of src/index.ts.             *)
(*                                                                         *)
(* Strings are sequences of one-character strings, so that toLowerCase,    *)
(* includes, startsWith, split and join are computed as the code computes  *)
(* them.  An optional field (T | undefined) is a record None or Some(v).   *)
(***************************************************************************)
EXTENDS Integers, Sequences, FiniteSets, TLC

VARIABLES
    whaileysSrcPath,  \* AstParser.whaileysSrcPath / WHAILEYS_PATH
    disk,             \* the source files on disk
    project,          \* AstParser.project: the source files the Project holds
    cachedTypes,      \* AstParser.cachedTypes (None = null)
    pc,               \* position of the running call: "idle" | "building"
    types,            \* extractAllTypes' local array
    todo,             \* source files the running loop still has to visit
    scanned,          \* source files the last started loop was given
    pending,          \* the public method whose call is running
    result,           \* what the last finished call returned
    prevAll,          \* return value of the extractAllTypes call before the last
    lastAll,          \* return value of the last extractAllTypes call
    pulls,            \* number of source tree changes so far
    scans,            \* scans of the source tree made by request handlers
    requests,         \* tool requests handled by the server process
    response,         \* the last tool response
    mainPc,           \* main(): "start" | "ensured" | "connected" | "checking"
                      \*         | "serving" | "exited" (process.exit(1))
    autoUpdateEnabled, \* AUTO_UPDATE_ENABLED: the environment's value is not 'false'
    rival,            \* history, per task: what a checkAndUpdate that returned while
                      \* this one held the same fetched commit did about it
    hasSrc,           \* hasWhaileysSrc(): WHAILEYS_DIR/src exists
    isGit,            \* isGitRepository(): WHAILEYS_DIR/.git exists
    headSha,          \* git rev-parse HEAD in WHAILEYS_DIR (None: it fails)
    savedSha,         \* content of CACHE_FILE (None: no file)
    remoteSha,        \* the latest commit of canove/whaileys on GitHub
    task,             \* per caller: the running checkAndUpdate / checkForUpdates
    taskResult,       \* per caller: what its last finished call returned
    gitPulls,         \* executions of `git pull origin main`
    gitClones,        \* executions of `git clone`
    updates           \* calls of checkAndUpdate and checkForUpdates started

vars == <<whaileysSrcPath, disk, project, cachedTypes, pc, types, todo, scanned,
          pending, result, prevAll, lastAll, pulls, scans, requests, response,
          mainPc, autoUpdateEnabled, rival, hasSrc, isGit, headSha, savedSha, remoteSha,
          task, taskResult, gitPulls, gitClones, updates>>

engineVars == <<project, cachedTypes, pc, types, todo, scanned, pending, result,
                prevAll, lastAll>>
\* the repository, the SHA cache and the update calls of index.ts
updaterVars == <<mainPc, autoUpdateEnabled, rival, hasSrc, isGit, headSha, savedSha,
                 remoteSha, task, taskResult, gitPulls, gitClones, updates>>
serverVars == <<scans, requests, response, updaterVars>>

-----------------------------------------------------------------------------
(* Bounds of the model *)

MaxFiles == 2
MaxPulls == 1
MaxRequests == 3
MaxIndex == 3
MaxEnumMembers == 8
MaxInitializer == 102
MaxCommits == 3
MaxUpdates == 2
\* query requests served in one behaviour of the updater specification
MaxServed == 1

-----------------------------------------------------------------------------
(* Optional values *)

None == [some |-> FALSE]
Some(v) == [some |-> TRUE, v |-> v]

\* the callers of the update functions: a tool request, the interval timer
TaskIds == {"tool", "timer"}

IdleTask == [op |-> "idle", pc |-> "idle", latestCommit |-> None]

\* a served repository at its first commit with no update call running
updaterAtRest ==
    /\ mainPc = "serving"
    /\ autoUpdateEnabled = TRUE
    /\ rival = [id \in TaskIds |-> "none"]
    /\ hasSrc = TRUE
    /\ isGit = TRUE
    /\ headSha = Some(1)
    /\ savedSha = None
    /\ remoteSha = 1
    /\ task = [id \in TaskIds |-> IdleTask]
    /\ taskResult = [id \in TaskIds |-> None]
    /\ gitPulls = 0
    /\ gitClones = 0
    /\ updates = 0

-----------------------------------------------------------------------------
(* Strings *)

Uppers == <<"A","B","C","D","E","F","G","H","I","J","K","L","M",
            "N","O","P","Q","R","S","T","U","V","W","X","Y","Z">>
Lowers == <<"a","b","c","d","e","f","g","h","i","j","k","l","m",
            "n","o","p","q","r","s","t","u","v","w","x","y","z">>

UpperToLower == [i \in 1..Len(Uppers) |-> Lowers[i]]

UpperIndex == [c \in {Uppers[i] : i \in 1..Len(Uppers)} |->
                  CHOOSE i \in 1..Len(Uppers) : Uppers[i] = c]

LowerChar(c) == IF c \in DOMAIN UpperIndex THEN UpperToLower[UpperIndex[c]] ELSE c

\* String.prototype.toLowerCase
toLowerCase(s) == [i \in 1..Len(s) |-> LowerChar(s[i])]

\* String.prototype.includes
includes(s, sub) ==
    /\ Len(sub) <= Len(s)
    /\ \E i \in 0..(Len(s) - Len(sub)) : SubSeq(s, i + 1, i + Len(sub)) = sub

\* String.prototype.startsWith
startsWith(s, pre) ==
    /\ Len(pre) <= Len(s)
    /\ SubSeq(s, 1, Len(pre)) = pre

IsWhitespace(c) == c \in {" ", "\t", "\n"}

RECURSIVE SplitWsFrom(_, _, _, _)
SplitWsFrom(s, i, cur, acc) ==
    IF i > Len(s) THEN Append(acc, cur)
    ELSE IF IsWhitespace(s[i])
         THEN IF i > 1 /\ IsWhitespace(s[i - 1])
              THEN SplitWsFrom(s, i + 1, cur, acc)
              ELSE SplitWsFrom(s, i + 1, <<>>, Append(acc, cur))
         ELSE SplitWsFrom(s, i + 1, Append(cur, s[i]), acc)

\* s.split(/\s+/): a leading or trailing run of whitespace yields an empty piece
splitWhitespace(s) == SplitWsFrom(s, 1, <<>>, <<>>)

RECURSIVE SplitOnFrom(_, _, _, _, _)
SplitOnFrom(s, sep, i, cur, acc) ==
    IF i > Len(s) THEN Append(acc, cur)
    ELSE IF s[i] = sep
         THEN SplitOnFrom(s, sep, i + 1, <<>>, Append(acc, cur))
         ELSE SplitOnFrom(s, sep, i + 1, Append(cur, s[i]), acc)

\* s.split(sep) for a one-character separator
split(s, sep) == SplitOnFrom(s, sep, 1, <<>>, <<>>)

RECURSIVE join(_, _)
\* Array.prototype.join
join(parts, sep) ==
    IF Len(parts) = 0 THEN <<>>
    ELSE IF Len(parts) = 1 THEN parts[1]
    ELSE parts[1] \o sep \o join(Tail(parts), sep)

\* Array.prototype.slice(0, n): a negative n counts from the end
slice0(s, n) ==
    LET end == IF n < 0
               THEN (IF Len(s) + n > 0 THEN Len(s) + n ELSE 0)
               ELSE (IF n < Len(s) THEN n ELSE Len(s))
    IN  SubSeq(s, 1, end)

Digit(d) == <<"0","1","2","3","4","5","6","7","8","9">>[d + 1]

RECURSIVE numberToString(_)
\* the decimal rendering of a natural number inside a template literal
numberToString(n) ==
    IF n < 10 THEN <<Digit(n)>>
    ELSE numberToString(n \div 10) \o <<Digit(n % 10)>>

RECURSIVE SeqSum(_)
SeqSum(s) == IF Len(s) = 0 THEN 0 ELSE s[1] + SeqSum(Tail(s))

\* Array.prototype.map over a sequence
Map(s, Op(_)) == [i \in 1..Len(s) |-> Op(s[i])]

\* Array.prototype.find: the first element satisfying Test, or undefined
find(s, Test(_)) ==
    IF \E i \in 1..Len(s) : Test(s[i])
    THEN Some(s[CHOOSE i \in 1..Len(s) :
                   /\ Test(s[i])
                   /\ \A j \in 1..(i - 1) : ~Test(s[j])])
    ELSE None


\* String.prototype.trim
RECURSIVE trimStart(_)
trimStart(s) ==
    IF Len(s) > 0 /\ IsWhitespace(s[1]) THEN trimStart(Tail(s)) ELSE s

RECURSIVE trimEnd(_)
trimEnd(s) ==
    IF Len(s) > 0 /\ IsWhitespace(s[Len(s)])
    THEN trimEnd(SubSeq(s, 1, Len(s) - 1))
    ELSE s

trim(s) == trimEnd(trimStart(s))

RECURSIVE collapseWhitespace(_)
\* .replace(/\s+/g, ' ')
collapseWhitespace(s) ==
    IF Len(s) = 0 THEN <<>>
    ELSE IF IsWhitespace(s[1])
         THEN <<" ">> \o collapseWhitespace(trimStart(s))
         ELSE <<s[1]>> \o collapseWhitespace(Tail(s))

-----------------------------------------------------------------------------
(* Program constants *)

EnumPreview == 5          \* members.slice(0, 5), members.length > 5
ValuePreview == 100       \* initText.length > 100, substring(0, 100)
DefaultMaxResults == 20   \* fuzzySearch(query, maxResults = 20)
TopCount == 10            \* slice(0, 10) of the top lists
ScoreExact == 100
ScorePrefix == 50
ScoreContains == 25
ScoreWordInName == 10
ScoreWordInDocs == 5

Kinds == {"interface", "type", "enum", "function", "class", "variable",
          "namespace", "re-export"}

-----------------------------------------------------------------------------
(* The records of the index: ExtractedType, PropertyInfo *)

ExtractedType(name, kind, file, module, signature) ==
    [name |-> name, kind |-> kind, exported |-> TRUE, file |-> file,
     module |-> module, signature |-> signature,
     fullSignature |-> None, properties |-> None, methods |-> None,
     members |-> None, typeParameters |-> None, extends |-> None,
     implements |-> None, docs |-> None, value |-> None,
     reExportSource |-> None, lineNumber |-> None]

PropertyInfo(name, type, optional, readonly, docs, shape) ==
    [name |-> name, type |-> type, optional |-> optional, readonly |-> readonly,
     docs |-> docs, isMethod |-> shape = "method",
     isCallSignature |-> shape = "call", isIndexSignature |-> shape = "index",
     parameters |-> None, returnType |-> None]

-----------------------------------------------------------------------------
(* Syntax nodes: what ts-morph hands to the normalizer.  One record shape  *)
(* for the eight declaration forms; a form reads only its own fields.      *)

SyntaxNode(nk, name, exported) ==
    [nk |-> nk, name |-> name, exported |-> exported,
     jsDocs |-> <<>>,            \* descriptions of the attached JSDoc blocks
     typeParameters |-> <<>>,    \* [name, constraint, default]
     heritage |-> <<>>,          \* texts of the extends clause
     impls |-> <<>>,             \* texts of the implements clause
     properties |-> <<>>,        \* [name, type, optional, readonly, scope, jsDocs]
     methods |-> <<>>,           \* [name, parameters, returnType, optional, scope, jsDocs]
     callSignatures |-> <<>>,    \* [parameters, returnType, jsDocs]
     indexSignatures |-> <<>>,   \* [keyName, keyType, returnType, readonly, jsDocs]
     enumMembers |-> <<>>,       \* [name, value, initializer]
     parameters |-> <<>>,        \* [name, type, optional]
     typeText |-> <<>>,          \* getType().getText() / getReturnType().getText()
     initializer |-> None,       \* text of a variable's initializer
     declarationKind |-> <<"c","o","n","s","t">>,
     nested |-> <<>>,            \* [nk, name] of a namespace's declarations
     moduleSpecifier |-> None,
     namedExports |-> <<>>,      \* [name, alias]
     isNamespaceExport |-> FALSE,
     line |-> 1,
     throws |-> FALSE]           \* the compiler API raises on this node

\* .replace(/import\([^)]+\)\./g, ''): drop every import(...). prefix
RECURSIVE stripImports(_)
stripImports(s) ==
    IF Len(s) = 0 THEN <<>>
    ELSE IF /\ startsWith(s, <<"i","m","p","o","r","t","(">>)
            /\ \E j \in 9..Len(s) :
                 /\ s[j - 1] = ")" /\ s[j] = "."
                 /\ \A k \in 8..(j - 2) : s[k] # ")"
         THEN LET j == CHOOSE j \in 9..Len(s) :
                         /\ s[j - 1] = ")" /\ s[j] = "."
                         /\ \A k \in 8..(j - 2) : s[k] # ")"
              IN  stripImports(SubSeq(s, j + 1, Len(s)))
         ELSE <<s[1]>> \o stripImports(Tail(s))

\* AstParser.simplifyType; the type texts of this model hold no typeof
\* import(...) and no d:/ path, the two replacements that are left out
simplifyType(type) == trim(collapseWhitespace(stripImports(type)))

\* AstParser.getJsDocs: the descriptions joined by newlines and trimmed, or undefined
getJsDocs(node) ==
    IF Len(node.jsDocs) > 0
    THEN Some(trim(join(SelectSeq(node.jsDocs, LAMBDA d : Len(d) > 0), <<"\n">>)))
    ELSE None

\* AstParser.extractTypeParameters
extractTypeParameters(node) == node.typeParameters

typeParamsStr(typeParams) ==
    IF Len(typeParams) > 0
    THEN <<"<">> \o join(Map(typeParams, LAMBDA tp : tp.name), <<","," ">>) \o <<">">>
    ELSE <<>>

renderParam(p) == p.name \o <<":"," ">> \o simplifyType(p.type)

isPublic(member) == member.scope = "public" \/ member.scope = "none"

-----------------------------------------------------------------------------
(* The Declaration Normalizer: one extractor per declaration form *)

interfaceProperty(prop) ==
    PropertyInfo(prop.name, simplifyType(prop.type), prop.optional, prop.readonly,
                 getJsDocs(prop), "field")

methodInfo(method, optional) ==
    [PropertyInfo(method.name, simplifyType(method.returnType), optional, FALSE,
                  getJsDocs(method), "method")
     EXCEPT !.parameters = Some(Map(method.parameters, renderParam)),
            !.returnType = Some(simplifyType(method.returnType))]

callSignatureInfo(callSig) ==
    [PropertyInfo(<<"(","c","a","l","l",")">>, simplifyType(callSig.returnType), FALSE, FALSE,
                  getJsDocs(callSig), "call")
     EXCEPT !.parameters = Some(Map(callSig.parameters, renderParam)),
            !.returnType = Some(simplifyType(callSig.returnType))]

indexSignatureInfo(indexSig) ==
    PropertyInfo(<<"[">> \o indexSig.keyName \o <<":"," ">> \o indexSig.keyType \o <<"]">>,
                 simplifyType(indexSig.returnType), FALSE, indexSig.readonly,
                 getJsDocs(indexSig), "index")

\* AstParser.extractInterface
extractInterface(iface, file, module) ==
    LET properties == Map(iface.properties, interfaceProperty)
        methods == Map(iface.methods, LAMBDA m : methodInfo(m, m.optional))
                     \o Map(iface.callSignatures, callSignatureInfo)
                     \o Map(iface.indexSignatures, indexSignatureInfo)
        typeParams == extractTypeParameters(iface)
        extendsStr == IF Len(iface.heritage) > 0
                      THEN <<" ","e","x","t","e","n","d","s"," ">> \o join(iface.heritage, <<","," ">>)
                      ELSE <<>>
    IN  [ExtractedType(iface.name, "interface", file, module,
                       <<"i","n","t","e","r","f","a","c","e"," ">> \o iface.name \o typeParamsStr(typeParams)
                         \o extendsStr)
         EXCEPT !.properties = Some(properties),
                !.methods = Some(methods),
                !.typeParameters = Some(typeParams),
                !.extends = Some(iface.heritage),
                !.docs = getJsDocs(iface),
                !.lineNumber = Some(iface.line)]

\* AstParser.extractTypeAlias
extractTypeAlias(typeAlias, file, module) ==
    LET typeParams == extractTypeParameters(typeAlias)
        head == <<"t","y","p","e"," ">> \o typeAlias.name \o typeParamsStr(typeParams) \o <<" ","="," ">>
    IN  [ExtractedType(typeAlias.name, "type", file, module,
                       head \o simplifyType(typeAlias.typeText))
         EXCEPT !.fullSignature = Some(head \o typeAlias.typeText),
                !.typeParameters = Some(typeParams),
                !.docs = getJsDocs(typeAlias),
                !.lineNumber = Some(typeAlias.line)]

\* the member text of extractEnum: `${m.getName()} = ${valueStr}`
enumMemberText(m) ==
    LET valueStr ==
            IF m.value.some /\ m.value.v.t = "string"
            THEN <<"\"">> \o m.value.v.s \o <<"\"">>
            ELSE IF m.value.some THEN numberToString(m.value.v.n)
            ELSE IF m.initializer.some THEN m.initializer.v
            ELSE <<"a","u","t","o">>
    IN  m.name \o <<" ","="," ">> \o valueStr

\* a preview that announces the rest from the fifth member on
enumPreviewFromFifth(members) ==
    join(slice0(members, EnumPreview), <<","," ">>)
      \o (IF Len(members) >= EnumPreview
          THEN <<","," ",".",".","."," ","(","+">> \o numberToString(Len(members) - EnumPreview) \o <<")">>
          ELSE <<>>)

\* the preview of extractEnum's signature: the first members and the count of the rest
enumPreview(members) ==
    join(slice0(members, EnumPreview), <<","," ">>)
      \o (IF Len(members) > EnumPreview
          THEN <<","," ",".",".","."," ","(","+">> \o numberToString(Len(members) - EnumPreview) \o <<")">>
          ELSE <<>>)

\* an enum normalizer that also leaves a properties list on the record
extractEnumWithProperties(enumDecl, file, module) ==
    LET members == Map(enumDecl.enumMembers, enumMemberText)
    IN  [ExtractedType(enumDecl.name, "enum", file, module,
                       <<"e","n","u","m"," ">> \o enumDecl.name \o <<" ","{"," ">> \o enumPreview(members)
                         \o <<" ","}">>)
         EXCEPT !.members = Some(members),
                !.properties = Some(<<>>),
                !.docs = getJsDocs(enumDecl),
                !.lineNumber = Some(enumDecl.line)]

\* AstParser.extractEnum
extractEnum(enumDecl, file, module) ==
    LET members == Map(enumDecl.enumMembers, enumMemberText)
    IN  [ExtractedType(enumDecl.name, "enum", file, module,
                       <<"e","n","u","m"," ">> \o enumDecl.name \o <<" ","{"," ">> \o enumPreview(members)
                         \o <<" ","}">>)
         EXCEPT !.members = Some(members),
                !.docs = getJsDocs(enumDecl),
                !.lineNumber = Some(enumDecl.line)]

\* AstParser.extractFunction
extractFunction(funcDecl, file, module) ==
    LET typeParams == extractTypeParameters(funcDecl)
        params == Map(funcDecl.parameters,
                      LAMBDA p : p.name \o (IF p.optional THEN <<"?">> ELSE <<>>)
                                   \o <<":"," ">> \o simplifyType(p.type))
        \* `${funcDecl.getName()}` of an unnamed function renders "undefined"
        shown == IF Len(funcDecl.name) > 0 THEN funcDecl.name ELSE <<"u","n","d","e","f","i","n","e","d">>
    IN  [ExtractedType(IF Len(funcDecl.name) > 0 THEN funcDecl.name ELSE <<"a","n","o","n","y","m","o","u","s">>,
                       "function", file, module,
                       <<"f","u","n","c","t","i","o","n"," ">> \o shown \o typeParamsStr(typeParams) \o <<"(">>
                         \o join(params, <<","," ">>) \o <<")",":"," ">>
                         \o simplifyType(funcDecl.typeText))
         EXCEPT !.typeParameters = Some(typeParams),
                !.docs = getJsDocs(funcDecl),
                !.lineNumber = Some(funcDecl.line)]

\* AstParser.extractClass
extractClass(classDecl, file, module) ==
    LET methods == Map(SelectSeq(classDecl.methods, isPublic),
                       LAMBDA m : methodInfo(m, FALSE))
        properties == Map(SelectSeq(classDecl.properties, isPublic), interfaceProperty)
        typeParams == extractTypeParameters(classDecl)
        shown == IF Len(classDecl.name) > 0 THEN classDecl.name ELSE <<"u","n","d","e","f","i","n","e","d">>
        signature ==
            <<"c","l","a","s","s"," ">> \o shown \o typeParamsStr(typeParams)
              \o (IF Len(classDecl.heritage) > 0
                  THEN <<" ","e","x","t","e","n","d","s"," ">> \o classDecl.heritage[1] ELSE <<>>)
              \o (IF Len(classDecl.impls) > 0
                  THEN <<" ","i","m","p","l","e","m","e","n","t","s"," ">> \o join(classDecl.impls, <<","," ">>) ELSE <<>>)
    IN  [ExtractedType(IF Len(classDecl.name) > 0 THEN classDecl.name
                       ELSE <<"A","n","o","n","y","m","o","u","s","C","l","a","s","s">>,
                       "class", file, module, signature)
         EXCEPT !.properties = Some(properties),
                !.methods = Some(methods),
                !.typeParameters = Some(typeParams),
                !.extends = IF Len(classDecl.heritage) > 0
                            THEN Some(<<classDecl.heritage[1]>>) ELSE None,
                !.implements = IF Len(classDecl.impls) > 0
                               THEN Some(classDecl.impls) ELSE None,
                !.docs = getJsDocs(classDecl),
                !.lineNumber = Some(classDecl.line)]

\* the value of extractVariable: the initializer, cut after ValuePreview characters
variableValue(initText) ==
    IF Len(initText) > ValuePreview
    THEN SubSeq(initText, 1, ValuePreview) \o <<".",".",".">>
    ELSE initText

\* AstParser.extractVariable
extractVariable(varDecl, file, module) ==
    [ExtractedType(varDecl.name, "variable", file, module,
                   varDecl.declarationKind \o <<" ">> \o varDecl.name \o <<":"," ">>
                     \o simplifyType(varDecl.typeText))
     EXCEPT !.value = IF varDecl.initializer.some
                      THEN Some(variableValue(varDecl.initializer.v)) ELSE None,
            !.docs = getJsDocs(varDecl),
            !.lineNumber = Some(varDecl.line)]

namespaceKeyword(nk) ==
    CASE nk = "interface" -> <<"i","n","t","e","r","f","a","c","e"," ">>
      [] nk = "typeAlias" -> <<"t","y","p","e"," ">>
      [] nk = "enum" -> <<"e","n","u","m"," ">>
      [] nk = "function" -> <<"f","u","n","c","t","i","o","n"," ">>
      [] nk = "class" -> <<"c","l","a","s","s"," ">>
      [] nk = "module" -> <<"n","a","m","e","s","p","a","c","e"," ">>

nestedOfKind(moduleDecl, nk) ==
    Map(SelectSeq(moduleDecl.nested, LAMBDA d : d.nk = nk),
        LAMBDA d : namespaceKeyword(nk) \o d.name)

\* AstParser.extractNamespace
extractNamespace(moduleDecl, file, module) ==
    LET members == nestedOfKind(moduleDecl, "interface")
                     \o nestedOfKind(moduleDecl, "typeAlias")
                     \o nestedOfKind(moduleDecl, "enum")
                     \o nestedOfKind(moduleDecl, "function")
                     \o nestedOfKind(moduleDecl, "class")
                     \o nestedOfKind(moduleDecl, "module")
    IN  [ExtractedType(moduleDecl.name, "namespace", file, module,
                       <<"n","a","m","e","s","p","a","c","e"," ">> \o moduleDecl.name \o <<" ","{"," ","/","*"," ">>
                         \o numberToString(Len(members)) \o <<" ","m","e","m","b","e","r","s"," ","*","/"," ","}">>)
         EXCEPT !.members = Some(members),
                !.docs = getJsDocs(moduleDecl),
                !.lineNumber = Some(moduleDecl.line)]

\* a rendering that drops the alias
namedExportNameOnly(ne) == ne.name

\* extractReExport: `${ne.getName()} as ${alias.getText()}` or the name
namedExportText(ne) ==
    IF ne.alias.some THEN ne.name \o <<" ","a","s"," ">> \o ne.alias.v ELSE ne.name

\* AstParser.extractReExport: a record, or null
extractReExport(exportDecl, file, module) ==
    IF ~exportDecl.moduleSpecifier.some \/ Len(exportDecl.moduleSpecifier.v) = 0
    THEN None
    ELSE LET moduleSpecifier == exportDecl.moduleSpecifier.v
             names == Map(exportDecl.namedExports, namedExportText)
             tail == <<" ","f","r","o","m"," ","\"">> \o moduleSpecifier \o <<"\"">>
         IN  IF exportDecl.isNamespaceExport
             THEN Some([ExtractedType(<<"*">> \o tail, "re-export", file, module,
                                      <<"e","x","p","o","r","t"," ","*">> \o tail)
                        EXCEPT !.reExportSource = Some(moduleSpecifier),
                               !.lineNumber = Some(exportDecl.line)])
             ELSE IF Len(names) > 0
             THEN Some([ExtractedType(<<"{"," ">> \o join(names, <<","," ">>) \o <<" ","}">> \o tail,
                                      "re-export", file, module,
                                      <<"e","x","p","o","r","t"," ","{"," ">> \o join(names, <<","," ">>) \o <<" ","}">>
                                        \o tail)
                        EXCEPT !.reExportSource = Some(moduleSpecifier),
                               !.members = Some(names),
                               !.lineNumber = Some(exportDecl.line)])
             ELSE None

-----------------------------------------------------------------------------
(* Paths and candidate files.  A source file is [path, ord, nodes]: its    *)
(* absolute path, its rank in Project.getSourceFiles() and its top-level   *)
(* declarations in source order.                                           *)

\* path.sep of the platform the server runs on
pathSep == "/"

\* path.relative(from, to) for a file below the directory `from`
relative(from, to) ==
    IF startsWith(to, from \o <<pathSep>>)
    THEN SubSeq(to, Len(from) + 2, Len(to))
    ELSE to

\* a module name taken from the directory that holds the file
getModuleNameOfDirectory(root, filePath) ==
    LET parts == split(relative(root, filePath), pathSep)
    IN  IF Len(parts) > 1 THEN parts[Len(parts) - 1] ELSE <<"r","o","o","t">>

\* AstParser.getModuleName
getModuleName(root, filePath) ==
    LET parts == split(relative(root, filePath), pathSep)
    IN  IF Len(parts) > 1 THEN parts[1] ELSE <<"r","o","o","t">>

\* AstParser.getRelativePath
getRelativePath(root, filePath) ==
    Map(relative(root, filePath), LAMBDA c : IF c = "\\" THEN "/" ELSE c)

endsWith(s, suf) ==
    /\ Len(suf) <= Len(s)
    /\ SubSeq(s, Len(s) - Len(suf) + 1, Len(s)) = suf

\* the test of extractAllTypes' loop: a file it does not skip
isCandidate(filePath) ==
    ~(includes(filePath, <<"T","e","s","t","s">>) \/ includes(filePath, <<".","d",".","t","s">>))

\* the glob **/*.ts of extractAllTypes over the files on disk
matchesGlob(root, filePath) ==
    startsWith(filePath, root \o <<pathSep>>) /\ endsWith(filePath, <<".","t","s">>)

RECURSIVE SortByOrd(_)
\* Project.getSourceFiles(): the project's files in their fixed order
SortByOrd(files) ==
    IF files = {} THEN <<>>
    ELSE LET f == CHOOSE f \in files : \A g \in files : f.ord <= g.ord
         IN  <<f>> \o SortByOrd(files \ {f})

\* Project.addSourceFilesAtPaths / addSourceFileAtPath: a path the project
\* already holds keeps the source file it holds
addToProject(proj, files) ==
    proj \cup {f \in files : \A g \in proj : g.path # f.path}

nodesOf(sourceFile, nk) == SelectSeq(sourceFile.nodes, LAMBDA n : n.nk = nk)

\* the declarations of a kind without the isExported() test
exportedOrNot(sourceFile, nk) == SelectSeq(sourceFile.nodes, LAMBDA n : n.nk = nk)

exportedOf(sourceFile, nk) ==
    SelectSeq(sourceFile.nodes, LAMBDA n : n.nk = nk /\ n.exported)

\* whether extractTypes raises on this file: one of the declarations it
\* normalizes makes the compiler API raise
extractTypesThrows(sourceFile) ==
    \E i \in 1..Len(sourceFile.nodes) :
        /\ sourceFile.nodes[i].throws
        /\ sourceFile.nodes[i].exported \/ sourceFile.nodes[i].nk = "export"

\* AstParser.extractTypes: the records of one file, grouped by declaration form
extractTypes(root, sourceFile) ==
    LET relativePath == getRelativePath(root, sourceFile.path)
        moduleName == getModuleName(root, sourceFile.path)
        reExports == Map(nodesOf(sourceFile, "export"),
                         LAMBDA e : extractReExport(e, relativePath, moduleName))
    IN  Map(exportedOf(sourceFile, "interface"),
            LAMBDA n : extractInterface(n, relativePath, moduleName))
        \o Map(exportedOf(sourceFile, "typeAlias"),
               LAMBDA n : extractTypeAlias(n, relativePath, moduleName))
        \o Map(exportedOf(sourceFile, "enum"),
               LAMBDA n : extractEnum(n, relativePath, moduleName))
        \o Map(exportedOf(sourceFile, "function"),
               LAMBDA n : extractFunction(n, relativePath, moduleName))
        \o Map(exportedOf(sourceFile, "class"),
               LAMBDA n : extractClass(n, relativePath, moduleName))
        \o Map(exportedOf(sourceFile, "variable"),
               LAMBDA n : extractVariable(n, relativePath, moduleName))
        \o Map(exportedOf(sourceFile, "module"),
               LAMBDA n : extractNamespace(n, relativePath, moduleName))
        \o Map(SelectSeq(reExports, LAMBDA r : r.some), LAMBDA r : r.v)

RECURSIVE buildIndex(_, _)
\* the loop of extractAllTypes run to its end over `files`: the index, or
\* the failure the first raising file ends it with
buildIndex(root, files) ==
    IF Len(files) = 0 THEN [ok |-> TRUE, types |-> <<>>]
    ELSE IF ~isCandidate(files[1].path) THEN buildIndex(root, Tail(files))
    ELSE IF extractTypesThrows(files[1]) THEN [ok |-> FALSE, types |-> <<>>]
    ELSE LET rest == buildIndex(root, Tail(files))
         IN  IF rest.ok
             THEN [ok |-> TRUE, types |-> extractTypes(root, files[1]) \o rest.types]
             ELSE rest

-----------------------------------------------------------------------------
(* The Query Engine: each operator is a public method of AstParser applied *)
(* to the array extractAllTypes() returned to it                           *)

RECURSIVE insertBeforeEqualKeys(_, _)
\* an insertion that puts x before the elements of equal key: an unstable sort
insertBeforeEqualKeys(sorted, x) ==
    IF Len(sorted) = 0 THEN <<x>>
    ELSE IF sorted[1].key > x.key
         THEN <<sorted[1]>> \o insertBeforeEqualKeys(Tail(sorted), x)
         ELSE <<x>> \o sorted

RECURSIVE insertByKey(_, _)
\* x put into the sorted sequence after every element whose key is not smaller
insertByKey(sorted, x) ==
    IF Len(sorted) = 0 THEN <<x>>
    ELSE IF sorted[1].key >= x.key
         THEN <<sorted[1]>> \o insertByKey(Tail(sorted), x)
         ELSE <<x>> \o sorted

RECURSIVE sortKeyed(_)
sortKeyed(s) ==
    IF Len(s) = 0 THEN <<>>
    ELSE insertByKey(sortKeyed(SubSeq(s, 1, Len(s) - 1)), s[Len(s)])

\* Array.prototype.sort((a, b) => Key(b) - Key(a)): descending and stable
sortDescending(s, Key(_)) ==
    Map(sortKeyed(Map(s, LAMBDA x : [key |-> Key(x), item |-> x])), LAMBDA p : p.item)

\* a lookup in one pass: the first entry whose name holds the query
searchTypeInOnePass(allTypes, typeName) ==
    find(allTypes, LAMBDA t : includes(toLowerCase(t.name), toLowerCase(typeName)))

\* AstParser.searchType
searchType(allTypes, typeName) ==
    LET lowerName == toLowerCase(typeName)
        exact == find(allTypes, LAMBDA t : toLowerCase(t.name) = lowerName)
    IN  IF exact.some THEN exact
        ELSE find(allTypes, LAMBDA t : includes(toLowerCase(t.name), lowerName))

\* a score that gives a name starting with the query no more than one holding it
fuzzyScoreWithoutPrefix(type, query) ==
    LET lowerQuery == toLowerCase(query)
        words == splitWhitespace(lowerQuery)
        lowerName == toLowerCase(type.name)
        lowerDocs == toLowerCase(IF type.docs.some /\ Len(type.docs.v) > 0
                                 THEN type.docs.v ELSE <<>>)
        whole == IF lowerName = lowerQuery THEN ScoreExact
                 ELSE IF includes(lowerName, lowerQuery) THEN ScoreContains
                 ELSE 0
        perWord == [i \in 1..Len(words) |->
                      (IF includes(lowerName, words[i]) THEN ScoreWordInName ELSE 0)
                      + (IF includes(lowerDocs, words[i]) THEN ScoreWordInDocs ELSE 0)]
    IN  whole + SeqSum(perWord)

\* the score fuzzySearch gives one entry
fuzzyScore(type, query) ==
    LET lowerQuery == toLowerCase(query)
        words == splitWhitespace(lowerQuery)
        lowerName == toLowerCase(type.name)
        lowerDocs == toLowerCase(IF type.docs.some /\ Len(type.docs.v) > 0
                                 THEN type.docs.v ELSE <<>>)
        whole == IF lowerName = lowerQuery THEN ScoreExact
                 ELSE IF startsWith(lowerName, lowerQuery) THEN ScorePrefix
                 ELSE IF includes(lowerName, lowerQuery) THEN ScoreContains
                 ELSE 0
        perWord == [i \in 1..Len(words) |->
                      (IF includes(lowerName, words[i]) THEN ScoreWordInName ELSE 0)
                      + (IF includes(lowerDocs, words[i]) THEN ScoreWordInDocs ELSE 0)]
    IN  whole + SeqSum(perWord)

\* AstParser.fuzzySearch
fuzzySearch(allTypes, query, maxResults) ==
    LET scored == Map(allTypes, LAMBDA t : [type |-> t, score |-> fuzzyScore(t, query)])
        ranked == sortDescending(SelectSeq(scored, LAMBDA s : s.score > 0),
                                 LAMBDA s : s.score)
    IN  Map(slice0(ranked, maxResults), LAMBDA s : s.type)

\* a module filter that compares the module name only
getTypesFromModuleByName(allTypes, moduleName) ==
    LET lowerModule == toLowerCase(moduleName)
    IN  SelectSeq(allTypes, LAMBDA t : toLowerCase(t.module) = lowerModule)

\* AstParser.getTypesFromModule
getTypesFromModule(allTypes, moduleName) ==
    LET lowerModule == toLowerCase(moduleName)
    IN  SelectSeq(allTypes, LAMBDA t :
            \/ toLowerCase(t.module) = lowerModule
            \/ includes(toLowerCase(t.file), lowerModule))

\* AstParser.getTypesByKind
getTypesByKind(allTypes, kind) == SelectSeq(allTypes, LAMBDA t : t.kind = kind)

newModuleStatistics(module) ==
    [module |-> module, interfaces |-> 0, types |-> 0, enums |-> 0, functions |-> 0,
     classes |-> 0, variables |-> 0, namespaces |-> 0, reExports |-> 0, total |-> 0]

\* a count that leaves re-exports out of the module's total
countDeclarationWithoutReExports(stats, kind) ==
    LET counted == [stats EXCEPT !.total = @ + 1]
    IN  CASE kind = "interface" -> [counted EXCEPT !.interfaces = @ + 1]
          [] kind = "type" -> [counted EXCEPT !.types = @ + 1]
          [] kind = "enum" -> [counted EXCEPT !.enums = @ + 1]
          [] kind = "function" -> [counted EXCEPT !.functions = @ + 1]
          [] kind = "class" -> [counted EXCEPT !.classes = @ + 1]
          [] kind = "variable" -> [counted EXCEPT !.variables = @ + 1]
          [] kind = "namespace" -> [counted EXCEPT !.namespaces = @ + 1]
          [] kind = "re-export" -> [stats EXCEPT !.reExports = @ + 1]
          [] OTHER -> counted

\* the switch of getStatistics: the per-kind counter one declaration increments
countDeclaration(stats, kind) ==
    LET counted == [stats EXCEPT !.total = @ + 1]
    IN  CASE kind = "interface" -> [counted EXCEPT !.interfaces = @ + 1]
          [] kind = "type" -> [counted EXCEPT !.types = @ + 1]
          [] kind = "enum" -> [counted EXCEPT !.enums = @ + 1]
          [] kind = "function" -> [counted EXCEPT !.functions = @ + 1]
          [] kind = "class" -> [counted EXCEPT !.classes = @ + 1]
          [] kind = "variable" -> [counted EXCEPT !.variables = @ + 1]
          [] kind = "namespace" -> [counted EXCEPT !.namespaces = @ + 1]
          [] kind = "re-export" -> [counted EXCEPT !.reExports = @ + 1]
          [] OTHER -> counted

\* index of the entry of an insertion-ordered Map keyed by module, 0 if none
moduleSlot(entries, module) ==
    IF \E i \in 1..Len(entries) : entries[i].module = module
    THEN CHOOSE i \in 1..Len(entries) : entries[i].module = module
    ELSE 0

RECURSIVE statisticsLoop(_, _, _)
\* the loop of getStatistics over allTypes: byKind and moduleMap
statisticsLoop(allTypes, byKind, moduleMap) ==
    IF Len(allTypes) = 0 THEN [byKind |-> byKind, moduleMap |-> moduleMap]
    ELSE LET type == allTypes[1]
             nextByKind == [byKind EXCEPT ![type.kind] = @ + 1]
             withModule == IF moduleSlot(moduleMap, type.module) = 0
                           THEN Append(moduleMap, newModuleStatistics(type.module))
                           ELSE moduleMap
             slot == moduleSlot(withModule, type.module)
             nextMap == [withModule EXCEPT
                           ![slot] = countDeclaration(withModule[slot], type.kind)]
         IN  statisticsLoop(Tail(allTypes), nextByKind, nextMap)

topNames(allTypes, kind) ==
    Map(slice0(SelectSeq(allTypes, LAMBDA t : t.kind = kind), TopCount),
        LAMBDA t : t.name)

\* statistics whose module records stay in first-seen order
getStatisticsUnsorted(allTypes) ==
    LET counted == statisticsLoop(allTypes, [k \in Kinds |-> 0], <<>>)
    IN  [totalDeclarations |-> Len(allTypes),
         byKind |-> counted.byKind,
         byModule |-> counted.moduleMap,
         topInterfaces |-> topNames(allTypes, "interface"),
         topTypes |-> topNames(allTypes, "type"),
         topFunctions |-> topNames(allTypes, "function")]

\* AstParser.getStatistics
getStatistics(allTypes) ==
    LET counted == statisticsLoop(allTypes, [k \in Kinds |-> 0], <<>>)
    IN  [totalDeclarations |-> Len(allTypes),
         byKind |-> counted.byKind,
         byModule |-> sortDescending(counted.moduleMap, LAMBDA m : m.total),
         topInterfaces |-> topNames(allTypes, "interface"),
         topTypes |-> topNames(allTypes, "type"),
         topFunctions |-> topNames(allTypes, "function")]

orEmpty(list) == IF list.some THEN list.v ELSE <<>>

someIncludes(list, name) ==
    list.some /\ \E i \in 1..Len(list.v) : includes(list.v[i], name)

RECURSIVE hierarchyChildren(_, _)
\* the loop of getTypeHierarchy: the names pushed into children
hierarchyChildren(allTypes, name) ==
    IF Len(allTypes) = 0 THEN <<>>
    ELSE (IF someIncludes(allTypes[1].extends, name) THEN <<allTypes[1].name>> ELSE <<>>)
         \o (IF someIncludes(allTypes[1].implements, name)
             THEN <<allTypes[1].name>> ELSE <<>>)
         \o hierarchyChildren(Tail(allTypes), name)

\* AstParser.getTypeHierarchy: null when no name matches
getTypeHierarchy(allTypes, typeName) ==
    LET type == find(allTypes,
                     LAMBDA t : toLowerCase(t.name) = toLowerCase(typeName))
    IN  IF ~type.some THEN None
        ELSE Some([type |-> type.v,
                   parents |-> orEmpty(type.v.extends) \o orEmpty(type.v.implements),
                   children |-> hierarchyChildren(allTypes, type.v.name)])

RECURSIVE dependenciesLoopOfDeclarations(_, _)
\* a loop that lists a re-export under reExportsFrom only, not under exports
dependenciesLoopOfDeclarations(allTypes, dependencies) ==
    IF Len(allTypes) = 0 THEN dependencies
    ELSE LET type == allTypes[1]
             known == moduleSlot(dependencies, type.module) # 0
             withModule ==
                 IF ~known
                 THEN Append(dependencies,
                             [module |-> type.module, imports |-> <<>>,
                              exports |-> <<>>, reExportsFrom |-> <<>>])
                 ELSE dependencies
             slot == moduleSlot(withModule, type.module)
             next ==
                 IF type.kind = "re-export"
                 THEN [withModule EXCEPT
                         ![slot].reExportsFrom = Append(@, type.reExportSource.v)]
                 ELSE [withModule EXCEPT ![slot].exports = Append(@, type.name)]
         IN  dependenciesLoopOfDeclarations(Tail(allTypes), next)

RECURSIVE dependenciesLoop(_, _)
\* the loop of analyzeDependencies over allTypes
dependenciesLoop(allTypes, dependencies) ==
    IF Len(allTypes) = 0 THEN dependencies
    ELSE LET type == allTypes[1]
             known == moduleSlot(dependencies, type.module) # 0
             withExport ==
                 IF ~known
                 THEN Append(dependencies,
                             [module |-> type.module, imports |-> <<>>,
                              exports |-> <<type.name>>, reExportsFrom |-> <<>>])
                 ELSE [dependencies EXCEPT
                         ![moduleSlot(dependencies, type.module)].exports =
                             Append(@, type.name)]
             slot == moduleSlot(withExport, type.module)
             withSource ==
                 IF /\ type.kind = "re-export"
                    /\ type.reExportSource.some
                    /\ Len(type.reExportSource.v) > 0
                 THEN [withExport EXCEPT
                         ![slot].reExportsFrom = Append(@, type.reExportSource.v)]
                 ELSE withExport
         IN  dependenciesLoop(Tail(allTypes), withSource)

\* AstParser.analyzeDependencies
analyzeDependencies(allTypes) == dependenciesLoop(allTypes, <<>>)

-----------------------------------------------------------------------------
(* The source trees of the model *)

SrcRoot == <<"/","w","/","s","r","c">>

str_Foo == <<"F","o","o">>
str_FooBar == <<"F","o","o","B","a","r">>
str_foo == <<"f","o","o">>
str_Baz == <<"B","a","z">>
str_BarFoo == <<"B","a","r","F","o","o">>
str_Types == <<"T","y","p","e","s">>
str_Status == <<"S","t","a","t","u","s">>

SourceFile(relPath, ord, nodes) ==
    [path |-> SrcRoot \o <<pathSep>> \o relPath, ord |-> ord, nodes |-> nodes]

\* the member names of the enums of the model
EnumMemberNames == <<"A","B","C","D","E","F","G","H","I","J","K">>

\* member i of an enum written in `style`: numeric, string, computed or bare
EnumMemberNode(i, style) ==
    LET form == IF style = "mixed"
                THEN <<"number", "string", "computed", "bare">>[(i % 4) + 1]
                ELSE style
    IN  [name |-> <<EnumMemberNames[i]>>,
         value |-> CASE form = "number" -> Some([t |-> "number", n |-> i - 1])
                     [] form = "string" ->
                            Some([t |-> "string", s |-> <<Lowers[i]>>])
                     [] OTHER -> None,
         initializer |-> IF form = "computed" THEN Some(<<"1"," ","<","<"," ","x">>) ELSE None]

EnumNode(name, n, style) ==
    [SyntaxNode("enum", name, TRUE)
     EXCEPT !.enumMembers = [i \in 1..n |-> EnumMemberNode(i, style)]]

InterfaceNode(name, heritage, exported) ==
    [SyntaxNode("interface", name, exported) EXCEPT !.heritage = heritage]

TypeAliasNode(name, typeText) ==
    [SyntaxNode("typeAlias", name, TRUE) EXCEPT !.typeText = typeText]

ClassNode(name, heritage, impls) ==
    [SyntaxNode("class", name, TRUE) EXCEPT !.heritage = heritage, !.impls = impls]

FunctionNode(name, docs) ==
    [SyntaxNode("function", name, TRUE)
     EXCEPT !.jsDocs = docs, !.typeText = <<"v","o","i","d">>]

VariableNode(name, docs, init) ==
    [SyntaxNode("variable", name, TRUE)
     EXCEPT !.jsDocs = docs, !.initializer = init, !.typeText = <<"s","t","r","i","n","g">>]

NamespaceNode(name, nested) ==
    [SyntaxNode("module", name, TRUE) EXCEPT !.nested = nested]

ExportStarNode(specifier) ==
    [SyntaxNode("export", <<>>, FALSE)
     EXCEPT !.moduleSpecifier = Some(specifier), !.isNamespaceExport = TRUE]

ExportNamedNode(names, specifier) ==
    [SyntaxNode("export", <<>>, FALSE)
     EXCEPT !.moduleSpecifier = specifier,
            !.namedExports = [i \in 1..Len(names) |->
                                 [name |-> names[i], alias |-> None]]]

\* export { x, y as z } from "specifier": each export a name and an optional alias
ExportAliasedNode(exports, specifier) ==
    [SyntaxNode("export", <<>>, FALSE)
     EXCEPT !.moduleSpecifier = specifier, !.namedExports = exports]

\* an initializer text of n characters
initializerText(n) == [i \in 1..n |-> Lowers[((i - 1) % 26) + 1]]

IndexFile ==
    SourceFile(<<"i","n","d","e","x",".","t","s">>, 1,
        <<ExportStarNode(<<".","/","T","y","p","e","s">>),
          ExportNamedNode(<<>>, Some(<<".","/","S","o","c","k","e","t">>)),
          NamespaceNode(str_Types, <<[nk |-> "interface", name |-> str_Foo]>>),
          FunctionNode(str_foo, <<<<"m","a","k","e","s"," ","a"," ","F","o","o">>>>),
          TypeAliasNode(str_Status, <<"n","u","m","b","e","r">>),
          InterfaceNode(<<"H","i","d","d","e","n">>, <<>>, FALSE)>>)

MessageFile ==
    SourceFile(<<"T","y","p","e","s","/","M","e","s","s","a","g","e",".","t","s">>, 2,
        <<InterfaceNode(str_FooBar, <<str_Foo>>, TRUE),
          InterfaceNode(str_Foo, <<>>, TRUE),
          EnumNode(str_Status, 2, "number")>>)

\* Types/Message.ts after an update of the repository
MessageFileUpdated ==
    SourceFile(<<"T","y","p","e","s","/","M","e","s","s","a","g","e",".","t","s">>, 2,
        <<InterfaceNode(str_Foo, <<>>, TRUE),
          InterfaceNode(str_Baz, <<str_Foo>>, TRUE)>>)

TestFile ==
    SourceFile(<<"T","e","s","t","s","/","t","e","s","t",".","f","o","o",".","t","s">>, 3, <<InterfaceNode(<<"F","i","x","t","u","r","e">>, <<>>, TRUE)>>)

\* a file outside the tests directory whose name holds the text "Tests"
RunTestsFile ==
    SourceFile(<<"U","t","i","l","s","/","r","u","n","T","e","s","t","s",".","t","s">>, 4, <<InterfaceNode(<<"R","u","n","n","e","r">>, <<>>, TRUE)>>)

\* a file on which the compiler API raises
BrokenFile ==
    SourceFile(<<"U","t","i","l","s","/","b","r","o","k","e","n",".","t","s">>, 5,
        <<[InterfaceNode(<<"B","r","o","k","e","n">>, <<>>, TRUE) EXCEPT !.throws = TRUE]>>)

SourceFiles ==
    {IndexFile, MessageFile, MessageFileUpdated, TestFile, RunTestsFile, BrokenFile}

\* the states of the source tree: at most MaxFiles files, one per path
Trees ==
    {t \in SUBSET SourceFiles :
        /\ Cardinality(t) <= MaxFiles
        /\ \A f, g \in t : f.path = g.path => f = g}

-----------------------------------------------------------------------------
(* One AstParser instance: its public methods as actions.  A call that    *)
(* finds cachedTypes unset runs the loop of extractAllTypes file by file  *)
(* (VisitSourceFile) and publishes the array when the loop has ended      *)
(* (FinishExtractAllTypes); the calling method then computes its answer.  *)
(* The caller takes the returned value (TakeResult) before its next call.  *)

NoCall == [op |-> "none", arg |-> None]
NoResult == [op |-> "none", arg |-> None, threw |-> FALSE, val |-> None]

Arg(q, n) == Some([q |-> q, n |-> n])

\* what a public method computes from the array extractAllTypes() gave it
Answer(op, arg, allTypes) ==
    CASE op = "extractAllTypes" -> allTypes
      [] op = "searchType" -> searchType(allTypes, arg.v.q)
      [] op = "fuzzySearch" -> fuzzySearch(allTypes, arg.v.q, arg.v.n)
      [] op = "getTypesFromModule" -> getTypesFromModule(allTypes, arg.v.q)
      [] op = "getTypesByKind" -> getTypesByKind(allTypes, arg.v.q)
      [] op = "getStatistics" -> getStatistics(allTypes)
      [] op = "getTypeHierarchy" -> getTypeHierarchy(allTypes, arg.v.q)
      [] op = "analyzeDependencies" -> analyzeDependencies(allTypes)

\* a parser that never takes the cached array
cacheNeverHit == FALSE

\* `if (this.cachedTypes) return this.cachedTypes`: an array, even an empty one, is truthy
cacheHit == cachedTypes.some

\* the method returns: its result, and the history of extractAllTypes' results
Return(op, arg, allTypes) ==
    /\ result' = [op |-> op, arg |-> arg, threw |-> FALSE,
                  val |-> Answer(op, arg, allTypes)]
    /\ IF op = "extractAllTypes"
       THEN prevAll' = lastAll /\ lastAll' = Some(allTypes)
       ELSE UNCHANGED <<prevAll, lastAll>>

\* a public method is called: it calls extractAllTypes(), which returns the
\* cached array or adds the files matching **/*.ts to the project and starts its loop
Call(op, arg) ==
    /\ pc = "idle"
    /\ result = NoResult
    /\ IF cacheHit
       THEN /\ Return(op, arg, cachedTypes.v)
            /\ UNCHANGED <<project, cachedTypes, pc, types, todo, scanned, pending>>
       ELSE /\ project' = addToProject(project,
                              {f \in disk : matchesGlob(whaileysSrcPath, f.path)})
            /\ todo' = SortByOrd(project')
            /\ scanned' = todo'
            /\ types' = <<>>
            /\ pc' = "building"
            /\ pending' = [op |-> op, arg |-> arg]
            /\ result' = NoResult
            /\ UNCHANGED <<cachedTypes, prevAll, lastAll>>
    /\ UNCHANGED <<whaileysSrcPath, disk, pulls, serverVars>>

ExtractAllTypes == Call("extractAllTypes", None)
SearchType(typeName) == Call("searchType", Arg(typeName, 0))
\* a fuzzySearch that sorts the cached array itself instead of its own list
FuzzySearchSortingInPlace(query, maxResults) ==
    IF pc = "idle" /\ result = NoResult /\ cachedTypes.some
    THEN /\ cachedTypes' = Some(sortDescending(cachedTypes.v,
                                   LAMBDA t : fuzzyScore(t, query)))
         /\ Return("fuzzySearch", Arg(query, maxResults), cachedTypes.v)
         /\ UNCHANGED <<whaileysSrcPath, disk, project, pc, types, todo, scanned,
                        pending, pulls, serverVars>>
    ELSE Call("fuzzySearch", Arg(query, maxResults))

FuzzySearch(query, maxResults) == Call("fuzzySearch", Arg(query, maxResults))
GetTypesFromModule(moduleName) == Call("getTypesFromModule", Arg(moduleName, 0))
GetTypesByKind(kind) == Call("getTypesByKind", Arg(kind, 0))
GetStatistics == Call("getStatistics", None)
GetTypeHierarchy(typeName) == Call("getTypeHierarchy", Arg(typeName, 0))
AnalyzeDependencies == Call("analyzeDependencies", None)

\* a loop that assigns this.cachedTypes after every file
VisitSourceFilePublishing ==
    /\ pc = "building"
    /\ Len(todo) > 0
    /\ LET sourceFile == Head(todo)
       IN  IF ~isCandidate(sourceFile.path)
           THEN /\ todo' = Tail(todo)
                /\ UNCHANGED <<types, cachedTypes, pc, pending, result>>
           ELSE IF extractTypesThrows(sourceFile)
           THEN /\ todo' = <<>>
                /\ types' = <<>>
                /\ UNCHANGED cachedTypes
                /\ pc' = "idle"
                /\ pending' = NoCall
                /\ result' = [op |-> pending.op, arg |-> pending.arg,
                              threw |-> TRUE, val |-> None]
           ELSE /\ types' = types \o extractTypes(whaileysSrcPath, sourceFile)
                /\ todo' = Tail(todo)
                /\ cachedTypes' = Some(types')
                /\ UNCHANGED <<pc, pending, result>>
    /\ UNCHANGED <<whaileysSrcPath, disk, project, scanned, prevAll,
                   lastAll, pulls, serverVars>>

\* a loop that publishes the records gathered so far when a file raises
VisitSourceFileKeepingPartial ==
    /\ pc = "building"
    /\ Len(todo) > 0
    /\ LET sourceFile == Head(todo)
       IN  IF ~isCandidate(sourceFile.path)
           THEN /\ todo' = Tail(todo)
                /\ UNCHANGED <<types, pc, pending, result, cachedTypes>>
           ELSE IF extractTypesThrows(sourceFile)
           THEN /\ todo' = <<>>
                /\ types' = <<>>
                /\ cachedTypes' = Some(types)
                /\ pc' = "idle"
                /\ pending' = NoCall
                /\ result' = [op |-> pending.op, arg |-> pending.arg,
                              threw |-> TRUE, val |-> None]
           ELSE /\ types' = types \o extractTypes(whaileysSrcPath, sourceFile)
                /\ todo' = Tail(todo)
                /\ UNCHANGED <<pc, pending, result, cachedTypes>>
    /\ UNCHANGED <<whaileysSrcPath, disk, project, scanned, prevAll,
                   lastAll, pulls, serverVars>>

\* one iteration of extractAllTypes' loop; a raise leaves the method and its caller
VisitSourceFile ==
    /\ pc = "building"
    /\ Len(todo) > 0
    /\ LET sourceFile == Head(todo)
       IN  IF ~isCandidate(sourceFile.path)
           THEN /\ todo' = Tail(todo)
                /\ UNCHANGED <<types, pc, pending, result>>
           ELSE IF extractTypesThrows(sourceFile)
           THEN /\ todo' = <<>>
                /\ types' = <<>>
                /\ pc' = "idle"
                /\ pending' = NoCall
                /\ result' = [op |-> pending.op, arg |-> pending.arg,
                              threw |-> TRUE, val |-> None]
           ELSE /\ types' = types \o extractTypes(whaileysSrcPath, sourceFile)
                /\ todo' = Tail(todo)
                /\ UNCHANGED <<pc, pending, result>>
    /\ UNCHANGED <<whaileysSrcPath, disk, project, cachedTypes, scanned, prevAll,
                   lastAll, pulls, serverVars>>

\* the loop has ended: `this.cachedTypes = types; return types`
FinishExtractAllTypes ==
    /\ pc = "building"
    /\ Len(todo) = 0
    /\ cachedTypes' = Some(types)
    /\ Return(pending.op, pending.arg, types)
    /\ pc' = "idle"
    /\ pending' = NoCall
    /\ types' = <<>>
    /\ UNCHANGED <<whaileysSrcPath, disk, project, todo, scanned, pulls, serverVars>>

\* AstParser.extractFromFile: the file is added to the project and normalized
ExtractFromFile(file) ==
    /\ pc = "idle"
    /\ result = NoResult
    /\ file \in disk
    /\ project' = addToProject(project, {file})
    /\ LET sourceFile == CHOOSE f \in project' : f.path = file.path
       IN  result' =
             IF \E i \in 1..Len(sourceFile.nodes) :
                   /\ sourceFile.nodes[i].throws
                   /\ sourceFile.nodes[i].exported \/ sourceFile.nodes[i].nk = "export"
             THEN [op |-> "extractFromFile", arg |-> Some(file.path),
                   threw |-> TRUE, val |-> None]
             ELSE [op |-> "extractFromFile", arg |-> Some(file.path),
                   threw |-> FALSE,
                   val |-> extractTypes(whaileysSrcPath, sourceFile)]
    /\ UNCHANGED <<whaileysSrcPath, disk, cachedTypes, pc, types, todo, scanned,
                   pending, prevAll, lastAll, pulls, serverVars>>

\* the caller has the value the finished call returned
TakeResult ==
    /\ pc = "idle"
    /\ result # NoResult
    /\ result' = NoResult
    /\ UNCHANGED <<whaileysSrcPath, disk, project, cachedTypes, pc, types, todo,
                   scanned, pending, prevAll, lastAll, pulls, serverVars>>

\* the trees one change of the repository leads to: a file added, removed or rewritten
Updates(tree) ==
    {t \in Trees \ {tree} :
        /\ Cardinality(t \ tree) <= 1
        /\ Cardinality(tree \ t) <= 1}

\* the files under the source root change (git pull, an editor); a running
\* loop is not affected, its files were read when it started
SourceTreeChange ==
    /\ pc = "idle"
    /\ result = NoResult
    /\ pulls < MaxPulls
    /\ pulls' = pulls + 1
    /\ disk' \in Updates(disk)
    /\ UNCHANGED <<whaileysSrcPath, engineVars, serverVars>>

EngineQueries == {str_Foo}

InitEngine ==
    /\ whaileysSrcPath = SrcRoot
    /\ disk \in Trees
    /\ project = {}
    /\ cachedTypes = None
    /\ pc = "idle"
    /\ types = <<>>
    /\ todo = <<>>
    /\ scanned = <<>>
    /\ pending = NoCall
    /\ result = NoResult
    /\ prevAll = None
    /\ lastAll = None
    /\ pulls = 0
    /\ scans = 0
    /\ requests = 0
    /\ response = None
    /\ updaterAtRest

NextEngine ==
    \/ ExtractAllTypes
    \/ \E q \in EngineQueries : SearchType(q)
    \/ \E q \in EngineQueries : FuzzySearch(q, DefaultMaxResults)
    \/ \E m \in {str_Types} : GetTypesFromModule(m)
    \/ \E k \in {"interface"} : GetTypesByKind(k)
    \/ GetStatistics
    \/ \E q \in EngineQueries : GetTypeHierarchy(q)
    \/ AnalyzeDependencies
    \/ VisitSourceFile
    \/ FinishExtractAllTypes
    \/ TakeResult
    \/ SourceTreeChange

SpecEngine == InitEngine /\ [][NextEngine]_vars

-----------------------------------------------------------------------------
(* The query methods over a warm cache: the index is any sequence of at    *)
(* most MaxIndex records the normalizer yields for the declarations below  *)

\* declarations around the name Foo: equal up to case, prefix, inner substring
FooDeclarations ==
    <<SourceFile(<<"i","n","d","e","x",".","t","s">>, 1, <<FunctionNode(str_foo, <<<<"m","a","k","e","s"," ","a"," ","F","o","o">>>>)>>),
      SourceFile(<<"T","y","p","e","s","/","M","e","s","s","a","g","e",".","t","s">>, 2,
          <<InterfaceNode(str_Foo, <<>>, TRUE),
            InterfaceNode(str_FooBar, <<str_Foo>>, TRUE)>>),
      SourceFile(<<"U","t","i","l","s","/","g","e","n","e","r","i","c","s",".","t","s">>, 3,
          <<ClassNode(str_BarFoo, <<<<"B","a","s","e","<","F","o","o",">">>>>, <<str_FooBar>>),
            VariableNode(str_Baz, <<<<"a"," ","b","a","r">>>>, Some(<<"1">>))>>)>>

\* declarations whose names hold whitespace: binding patterns and re-exports
PatternDeclarations ==
    <<SourceFile(<<"i","n","d","e","x",".","t","s">>, 1,
          <<ExportNamedNode(<<<<"a">>, <<"b">>, <<"c">>>>, Some(<<".","/","x">>)),
            ExportNamedNode(<<<<"a">>, <<"b">>>>, Some(<<".","/","x">>))>>),
      SourceFile(<<"U","t","i","l","s","/","c","o","n","f","i","g",".","t","s">>, 2,
          <<VariableNode(<<"{"," ","a",","," ","b",","," ","c"," ","}">>, <<>>, Some(<<"o">>)),
            VariableNode(<<"[","{"," ","a",","," ","b",","," ","c"," ","}","]">>, <<<<"{"," ","a",","," ","b",","," ","c"," ","}">>>>, Some(<<"l">>)),
            VariableNode(<<"[","{"," ","a",","," ","b"," ","}","]">>, <<<<"{"," ","a",","," ","b"," ","}">>>>, Some(<<"l">>))>>)>>

\* a declaration whose heritage clause names itself, and a declaration under it
SelfReferringDeclarations ==
    <<SourceFile(<<"U","t","i","l","s","/","t","r","e","e",".","t","s">>, 1,
          <<InterfaceNode(<<"B","a","r">>, <<<<"C","o","m","p","a","r","a","b","l","e","<","B","a","r",">">>>>, TRUE),
            InterfaceNode(<<"Q","u","x">>, <<<<"B","a","r">>>>, TRUE)>>)>>

Range(s) == {s[i] : i \in 1..Len(s)}

RECURSIVE SeqsUpTo(_, _)
\* the sequences over S of length at most n
SeqsUpTo(S, n) ==
    IF n = 0 THEN {<<>>}
    ELSE LET shorter == SeqsUpTo(S, n - 1)
         IN  shorter \cup {Append(s, x) : s \in shorter, x \in S}

\* the records of the index built over `files`
RecordsOf(files) == Range(buildIndex(SrcRoot, files).types)

Indexes ==
    SeqsUpTo(RecordsOf(FooDeclarations), MaxIndex)
      \cup SeqsUpTo(RecordsOf(PatternDeclarations), MaxIndex)
      \cup SeqsUpTo(RecordsOf(SelfReferringDeclarations), MaxIndex)

QueryStrings ==
    {str_Foo, <<"b","a","r">>, <<"f","o","o"," ","b","a","r">>, <<>>, <<"{"," ","a",","," ","b",","," ","c"," ","}">>, <<"{"," ","a",","," ","b"," ","}">>, <<"q">>, <<"b","a","r"," ">>}
\* module arguments: a module in other letter case, a module whose name is in
\* no path, a part of a file name, the empty string and a name of nothing
ModuleNames == {<<"t","y","p","e","s">>, <<"r","o","o","t">>, <<"M","e","s","s","a","g","e">>, <<"U","T","I","L","S","/","c">>, <<>>, <<"q">>}
QueryLimits == {0, 1, 2, DefaultMaxResults}
\* kind arguments: two of the eight kinds and a value that is none of them
QueryKinds == {"interface", "re-export", "struct"}

InitQuery ==
    /\ whaileysSrcPath = SrcRoot
    /\ disk = {}
    /\ project = {}
    /\ cachedTypes \in {Some(index) : index \in Indexes}
    /\ pc = "idle"
    /\ types = <<>>
    /\ todo = <<>>
    /\ scanned = <<>>
    /\ pending = NoCall
    /\ result = NoResult
    /\ prevAll = None
    /\ lastAll = None
    /\ pulls = 0
    /\ scans = 0
    /\ requests = 0
    /\ response = None
    /\ updaterAtRest

NextQuery ==
    \/ ExtractAllTypes
    \/ \E q \in QueryStrings : SearchType(q)
    \/ \E q \in QueryStrings : \E n \in QueryLimits : FuzzySearch(q, n)
    \/ \E m \in ModuleNames : GetTypesFromModule(m)
    \/ \E k \in QueryKinds : GetTypesByKind(k)
    \/ GetStatistics
    \/ \E q \in QueryStrings : GetTypeHierarchy(q)
    \/ AnalyzeDependencies
    \/ TakeResult

SpecQuery == InitQuery /\ [][NextQuery]_vars

-----------------------------------------------------------------------------
(* The normalizer on one file: extractFromFile over a file of one          *)
(* declaration at each of the paths below                                  *)

NormPaths ==
    {<<"i","n","d","e","x",".","t","s">>, <<"T","y","p","e","s","/","M","e","s","s","a","g","e",".","t","s">>, <<"T","y","p","e","s","/","s","u","b","/","d","e","e","p",".","t","s">>, <<"r","o","o","t","/","a",".","t","s">>,
     <<"S","o","c","k","e","t","/","i","n","d","e","x",".","t","s">>}

EnumStyles == {"mixed", "number"}

\* initializer lengths around the cut of extractVariable
InitializerLengths ==
    {0, 1, ValuePreview - 1, ValuePreview, ValuePreview + 1, MaxInitializer}

NormNodes ==
    {EnumNode(str_Status, n, style) : n \in 0..MaxEnumMembers, style \in EnumStyles}
      \cup {NamespaceNode(str_Types, <<[nk |-> "interface", name |-> str_Foo]>>),
            NamespaceNode(<<"S","o","c","k","e","t">>, <<>>),
            InterfaceNode(str_Foo, <<>>, TRUE),
            InterfaceNode(str_Foo, <<>>, FALSE),
            ClassNode(str_BarFoo, <<str_FooBar>>, <<str_Foo>>),
            FunctionNode(str_foo, <<<<"m","a","k","e","s"," ","a"," ","F","o","o">>>>),
            VariableNode(str_Baz, <<>>, Some(<<"1">>)),
            ExportStarNode(<<".","/","T","y","p","e","s">>),
            ExportNamedNode(<<<<"a">>, <<"b">>>>, Some(<<".","/","x">>)),
            ExportNamedNode(<<>>, Some(<<".","/","x">>)),
            ExportNamedNode(<<<<"a">>>>, None),
            ExportAliasedNode(<<[name |-> <<"x">>, alias |-> None],
                                [name |-> <<"y">>, alias |-> Some(<<"z">>)]>>,
                              Some(<<".","/","b">>)),
            TypeAliasNode(str_FooBar, <<"F","o","o"," ","|"," ","B","a","r">>),
            VariableNode(str_Baz, <<>>, None)}
      \cup {VariableNode(str_Baz, <<>>, Some(initializerText(n))) :
               n \in InitializerLengths}

\* a file of several export clauses and declarations
BarrelFile ==
    SourceFile(<<"S","o","c","k","e","t","/","i","n","d","e","x",".","t","s">>, 1,
        <<ExportNamedNode(<<>>, Some(<<".","/","x">>)),
          ExportAliasedNode(<<[name |-> <<"x">>, alias |-> None],
                              [name |-> <<"y">>, alias |-> Some(<<"z">>)]>>,
                            Some(<<".","/","b">>)),
          ExportNamedNode(<<<<"a">>>>, None),
          ExportStarNode(<<".","/","a">>),
          VariableNode(str_Baz, <<>>, Some(initializerText(ValuePreview))),
          InterfaceNode(str_Foo, <<>>, TRUE),
          TypeAliasNode(str_FooBar, <<"F","o","o"," ","|"," ","B","a","r">>),
          EnumNode(str_Status, 2, "mixed"),
          FunctionNode(str_foo, <<>>),
          ClassNode(str_BarFoo, <<str_Foo>>, <<>>),
          NamespaceNode(str_Types, <<[nk |-> "interface", name |-> str_Foo]>>)>>)

NormFiles ==
    {SourceFile(p, 1, <<n>>) : p \in NormPaths, n \in NormNodes} \cup {BarrelFile}

InitNorm ==
    /\ whaileysSrcPath = SrcRoot
    /\ \E f \in NormFiles : disk = {f}
    /\ project = {}
    /\ cachedTypes = None
    /\ pc = "idle"
    /\ types = <<>>
    /\ todo = <<>>
    /\ scanned = <<>>
    /\ pending = NoCall
    /\ result = NoResult
    /\ prevAll = None
    /\ lastAll = None
    /\ pulls = 0
    /\ scans = 0
    /\ requests = 0
    /\ response = None
    /\ updaterAtRest

NextNorm ==
    \/ \E f \in disk : ExtractFromFile(f)
    \/ TakeResult

SpecNorm == InitNorm /\ [][NextNorm]_vars

-----------------------------------------------------------------------------
(* The server process: the CallToolRequestSchema handler of index.ts.     *)
(* Every tool that queries the index constructs its own AstParser, so its *)
(* first query scans the source tree; the answers are kept as data, their *)
(* markdown rendering is not modelled.                                     *)

\* parser.fuzzySearch(nome, 5)
SuggestionLimit == 5

\* new AstParser(WHAILEYS_PATH) followed by its first extractAllTypes()
freshIndex(root, files) ==
    buildIndex(root, SortByOrd({f \in files : matchesGlob(root, f.path)}))

\* the catch of the handler: an error response
ErrorResponse(tool) == Some([tool |-> tool, isError |-> TRUE, val |-> None])

Response(tool, isError, val) == Some([tool |-> tool, isError |-> isError, val |-> val])

\* the array of a parser that was built when the process started
parsedAtStartup == freshIndex(whaileysSrcPath, {IndexFile, MessageFile}).types

\* the array the request's own parser gets from its first extractAllTypes()
parsed == freshIndex(whaileysSrcPath, disk).types

\* a tool request is handled by a parser of its own: `reply` is the case's
\* answer over `parsed`, the catch answers when the scan throws
HandleWithParser(tool, reply) ==
    /\ requests < MaxRequests
    /\ requests' = requests + 1
    /\ scans' = scans + 1
    /\ response' = IF freshIndex(whaileysSrcPath, disk).ok
                   THEN reply ELSE ErrorResponse(tool)
    /\ UNCHANGED <<whaileysSrcPath, disk, engineVars, pulls, updaterVars>>

RECURSIVE groupByModule(_, _)
\* `grouped[type.module].push(type)` over the types, modules in first-seen order
groupByModule(typeList, grouped) ==
    IF Len(typeList) = 0 THEN grouped
    ELSE LET type == typeList[1]
             slot == moduleSlot(grouped, type.module)
         IN  groupByModule(Tail(typeList),
                 IF slot = 0
                 THEN Append(grouped, [module |-> type.module, types |-> <<type>>])
                 ELSE [grouped EXCEPT ![slot].types = Append(@, type)])

\* case 'whaileys_extrair_tipos'
HandleExtrairTipos(modulo, apenasKind) ==
    HandleWithParser("whaileys_extrair_tipos", LET allTypes == parsed IN
        LET selected == IF modulo.some /\ Len(modulo.v) > 0
                        THEN getTypesFromModule(allTypes, modulo.v)
                        ELSE allTypes
            filtered == IF apenasKind.some
                        THEN SelectSeq(selected, LAMBDA t : t.kind = apenasKind.v)
                        ELSE selected
        IN  Response("whaileys_extrair_tipos", FALSE,
                     [total |-> Len(filtered),
                      grouped |-> groupByModule(filtered, <<>>)]))

\* case 'whaileys_buscar_tipo'
HandleBuscarTipo(nome) ==
    HandleWithParser("whaileys_buscar_tipo", LET allTypes == parsed IN
        LET found == searchType(allTypes, nome)
        IN  IF ~found.some
            THEN Response("whaileys_buscar_tipo", TRUE,
                          [suggestions |-> fuzzySearch(allTypes, nome, SuggestionLimit)])
            ELSE Response("whaileys_buscar_tipo", FALSE, [found |-> found.v]))

\* case 'whaileys_buscar_fuzzy': `limite || 20`
HandleBuscarFuzzy(query, limite) ==
    HandleWithParser("whaileys_buscar_fuzzy", LET allTypes == parsed IN
        LET results == fuzzySearch(allTypes, query,
                           IF limite.some /\ limite.v # 0 THEN limite.v
                           ELSE DefaultMaxResults)
        IN  Response("whaileys_buscar_fuzzy", Len(results) = 0, [results |-> results]))

\* case 'whaileys_categorias'
HandleCategorias(categoria, modulo) ==
    HandleWithParser("whaileys_categorias", LET allTypes == parsed IN
        LET ofKind == getTypesByKind(allTypes, categoria)
            selected == IF modulo.some /\ Len(modulo.v) > 0
                        THEN SelectSeq(ofKind, LAMBDA t :
                                 toLowerCase(t.module) = toLowerCase(modulo.v))
                        ELSE ofKind
        IN  Response("whaileys_categorias", FALSE,
                     [total |-> Len(selected), types |-> selected]))

\* case 'whaileys_hierarquia'
HandleHierarquia(nome) ==
    HandleWithParser("whaileys_hierarquia", LET allTypes == parsed IN
        LET hierarchy == getTypeHierarchy(allTypes, nome)
        IN  IF ~hierarchy.some
            THEN Response("whaileys_hierarquia", TRUE, None)
            ELSE Response("whaileys_hierarquia", FALSE, hierarchy.v))

\* case 'whaileys_estatisticas'
HandleEstatisticas ==
    HandleWithParser("whaileys_estatisticas", LET allTypes == parsed IN
        Response("whaileys_estatisticas", FALSE, getStatistics(allTypes)))

\* case 'whaileys_dependencias'
HandleDependencias ==
    HandleWithParser("whaileys_dependencias", LET allTypes == parsed IN
        Response("whaileys_dependencias", FALSE, analyzeDependencies(allTypes)))

RequestedNames == {str_Foo, <<"b","a","r">>}

Init ==
    /\ whaileysSrcPath = SrcRoot
    /\ disk \in Trees
    /\ project = {}
    /\ cachedTypes = None
    /\ pc = "idle"
    /\ types = <<>>
    /\ todo = <<>>
    /\ scanned = <<>>
    /\ pending = NoCall
    /\ result = NoResult
    /\ prevAll = None
    /\ lastAll = None
    /\ pulls = 0
    /\ scans = 0
    /\ requests = 0
    /\ response = None
    /\ updaterAtRest

Next ==
    \/ \E m \in {None, Some(str_Types)} : \E k \in {None, Some("interface")} :
          HandleExtrairTipos(m, k)
    \/ \E nome \in RequestedNames : HandleBuscarTipo(nome)
    \/ \E q \in RequestedNames : \E limite \in {None, Some(1)} : HandleBuscarFuzzy(q, limite)
    \/ \E k \in {"interface", "enum"} : HandleCategorias(k, None)
    \/ \E nome \in RequestedNames : HandleHierarquia(nome)
    \/ HandleEstatisticas
    \/ HandleDependencias

Spec == Init /\ [][Next]_vars

-----------------------------------------------------------------------------
(* The auto-updater of index.ts.  A commit is a number, its SHA the same  *)
(* number; the GitHub API fetch is the only real await of checkAndUpdate  *)
(* and checkForUpdates, so each runs in two steps with the answer of the  *)
(* fetch arriving in between; git and the file system are synchronous.    *)

\* the source tree of a commit
TreeOf(sha) ==
    IF sha % 2 = 1 THEN {IndexFile, MessageFile} ELSE {IndexFile, MessageFileUpdated}

\* saveSha: the write of CACHE_FILE, whose failure is caught and logged
saveSha(sha) == savedSha' \in {Some(sha), savedSha}

\* ensureRepository: nothing to do when src exists, else cloneRepository (which
\* runs git clone unless the directory exists, and may fail) and, when the
\* clone gave a src directory, saveSha(getLocalCommitSha())
ensureRepository(success) ==
    IF hasSrc
    THEN /\ success
         /\ UNCHANGED <<hasSrc, isGit, headSha, savedSha, disk, gitClones>>
    ELSE /\ IF success
            THEN /\ gitClones' = gitClones + 1
                 /\ hasSrc' = TRUE
                 /\ isGit' = TRUE
                 /\ headSha' = Some(remoteSha)
                 /\ disk' = TreeOf(remoteSha)
                 /\ saveSha(remoteSha)
            ELSE /\ gitClones' \in {gitClones, gitClones + 1}
                 /\ UNCHANGED <<hasSrc, isGit, headSha, savedSha, disk>>

\* the states of main() in which the transport is connected
Connected == {"connected", "checking", "serving"}

\* main() up to `WHAILEYS_PATH = repoResult.path`, or process.exit(1)
MainEnsureRepository ==
    /\ mainPc = "start"
    /\ \E success \in BOOLEAN :
          /\ ensureRepository(success)
          /\ mainPc' = IF success THEN "ensured" ELSE "exited"
          /\ whaileysSrcPath' = IF success THEN SrcRoot ELSE whaileysSrcPath
    /\ UNCHANGED <<engineVars, pulls, scans, requests, response, autoUpdateEnabled, rival,
                   remoteSha, task, taskResult, gitPulls, updates>>

\* a main() that connects the transport before it looks for the repository
MainConnectFirst ==
    /\ mainPc \in {"start", "ensured"}
    /\ mainPc' = "connected"
    /\ UNCHANGED <<whaileysSrcPath, disk, engineVars, pulls, scans, requests, response,
                   autoUpdateEnabled, rival, hasSrc, isGit, headSha, savedSha, remoteSha,
                   task, taskResult, gitPulls, gitClones, updates>>

\* `await mcpServer.connect(transport)`
MainConnect ==
    /\ mainPc = "ensured"
    /\ mainPc' = "connected"
    /\ UNCHANGED <<whaileysSrcPath, disk, engineVars, pulls, scans, requests, response,
                   autoUpdateEnabled, rival, hasSrc, isGit, headSha, savedSha, remoteSha,
                   task, taskResult, gitPulls, gitClones, updates>>

\* `if (AUTO_UPDATE_ENABLED)`: main() awaits the first checkForUpdates, or ends
MainFirstCheck ==
    /\ mainPc = "connected"
    /\ mainPc' = IF autoUpdateEnabled THEN "checking" ELSE "serving"
    /\ UNCHANGED <<whaileysSrcPath, disk, engineVars, pulls, scans, requests, response,
                   autoUpdateEnabled, rival, hasSrc, isGit, headSha, savedSha, remoteSha,
                   task, taskResult, gitPulls, gitClones, updates>>

\* the first check has returned (it is logged only): scheduleUpdateCheck
MainSchedule ==
    /\ mainPc = "checking"
    /\ mainPc' = "serving"
    /\ UNCHANGED <<whaileysSrcPath, disk, engineVars, pulls, scans, requests, response,
                   autoUpdateEnabled, rival, hasSrc, isGit, headSha, savedSha, remoteSha,
                   task, taskResult, gitPulls, gitClones, updates>>

UpdateResult(updated, previousSha, currentSha, error) ==
    Some([op |-> "checkAndUpdate", updated |-> updated, previousSha |-> previousSha,
          currentSha |-> currentSha, error |-> error])

\* checkAndUpdate up to `await fetchLatestCommit()`
StartCheckAndUpdate(id) ==
    /\ IF id = "timer" THEN mainPc = "serving" /\ autoUpdateEnabled
                       ELSE mainPc \in Connected
    /\ task[id].op = "idle"
    /\ updates < MaxUpdates
    /\ updates' = updates + 1
    /\ rival' = [rival EXCEPT ![id] = "none"]
    /\ \E success \in BOOLEAN :
          /\ ensureRepository(success)
          /\ IF ~success
             THEN /\ taskResult' = [taskResult EXCEPT
                                      ![id] = UpdateResult(FALSE, None, None, Some("clone"))]
                  /\ UNCHANGED task
             ELSE IF ~isGit'
             THEN /\ taskResult' = [taskResult EXCEPT
                                      ![id] = UpdateResult(FALSE, None, None, Some("git"))]
                  /\ UNCHANGED task
             ELSE /\ task' = [task EXCEPT ![id] = [op |-> "checkAndUpdate",
                                                   pc |-> "fetching",
                                                   latestCommit |-> None]]
                  /\ UNCHANGED taskResult
    /\ UNCHANGED <<whaileysSrcPath, engineVars, pulls, scans, requests, response,
                   mainPc, autoUpdateEnabled, remoteSha, gitPulls>>

\* fetchLatestCommit returns: the latest commit, or null on any failure
FetchLatestCommitReturns(id) ==
    /\ task[id].pc = "fetching"
    /\ \E ok \in BOOLEAN :
          task' = [task EXCEPT ![id].pc = "fetched",
                               ![id].latestCommit = IF ok THEN Some(remoteSha) ELSE None]
    /\ UNCHANGED <<whaileysSrcPath, disk, engineVars, pulls, scans, requests, response,
                   mainPc, autoUpdateEnabled, rival, hasSrc, isGit, headSha, savedSha, remoteSha, taskResult,
                   gitPulls, gitClones, updates>>

\* the SHA checkAndUpdate would compare with if it trusted its cache file
cachedShaAsLocal == savedSha

\* getLocalCommitSha: `git rev-parse HEAD`, null when it fails
getLocalCommitSha == headSha

\* the other of the two callers
otherTask(id) == CHOOSE o \in TaskIds : o # id

\* the history written when the checkAndUpdate of task `id` returns after it ran
\* git pull while the other task's checkAndUpdate was holding a fetched commit:
\* the other task is told how that pull ended if both held the same commit,
\* "failed", "updated" (HEAD is at the commit both fetched) or "ahead" (HEAD is
\* at a later one), and "other" if the pull was for a different commit
rivalAfter(id, pulled, success) ==
    LET o == otherTask(id)
        waiting == /\ task[o].op = "checkAndUpdate"
                   /\ task[o].pc = "fetched"
    IN  [rival EXCEPT ![o] = IF ~pulled \/ ~waiting THEN @
                             ELSE IF task[o].latestCommit # task[id].latestCommit THEN "other"
                             ELSE IF ~success THEN "failed"
                             ELSE IF headSha' = task[id].latestCommit THEN "updated"
                             ELSE "ahead"]

\* pullRepository: `git pull origin main` moves HEAD to the remote's commit, or fails
pullRepository(success) ==
    /\ gitPulls' = gitPulls + 1
    /\ IF success
       THEN headSha' = Some(remoteSha) /\ disk' = TreeOf(remoteSha)
       ELSE UNCHANGED <<headSha, disk>>

\* an update that writes the remote SHA to the cache before it pulls
ResumeCheckAndUpdateSavingFirst(id) ==
    /\ task[id].op = "checkAndUpdate"
    /\ task[id].pc = "fetched"
    /\ task' = [task EXCEPT ![id] = IdleTask]
    /\ LET latestCommit == task[id].latestCommit
           localSha == getLocalCommitSha
       IN  IF ~latestCommit.some
           THEN /\ taskResult' = [taskResult EXCEPT
                                    ![id] = UpdateResult(FALSE, None, None, Some("fetch"))]
                /\ UNCHANGED <<headSha, disk, savedSha, gitPulls>>
                /\ rival' = rivalAfter(id, FALSE, FALSE)
           ELSE IF latestCommit # localSha
           THEN \E success \in BOOLEAN :
                   /\ savedSha' = latestCommit
                   /\ pullRepository(success)
                   /\ rival' = rivalAfter(id, TRUE, success)
                   /\ taskResult' = [taskResult EXCEPT ![id] =
                          IF success
                          THEN UpdateResult(TRUE,
                                            IF localSha.some THEN localSha ELSE savedSha,
                                            latestCommit, None)
                          ELSE UpdateResult(FALSE, None, None, Some("pull"))]
           ELSE /\ taskResult' = [taskResult EXCEPT
                                    ![id] = UpdateResult(FALSE, None, latestCommit, None)]
                /\ UNCHANGED <<headSha, disk, savedSha, gitPulls>>
                /\ rival' = rivalAfter(id, FALSE, FALSE)
    /\ UNCHANGED <<whaileysSrcPath, engineVars, pulls, scans, requests, response,
                   mainPc, autoUpdateEnabled, hasSrc, isGit, remoteSha, gitClones, updates>>

\* checkAndUpdate after the fetch: compare, pull, save, return
ResumeCheckAndUpdate(id) ==
    /\ task[id].op = "checkAndUpdate"
    /\ task[id].pc = "fetched"
    /\ task' = [task EXCEPT ![id] = IdleTask]
    /\ LET latestCommit == task[id].latestCommit
           localSha == getLocalCommitSha
       IN  IF ~latestCommit.some
           THEN /\ taskResult' = [taskResult EXCEPT
                                    ![id] = UpdateResult(FALSE, None, None, Some("fetch"))]
                /\ UNCHANGED <<headSha, disk, savedSha, gitPulls>>
                /\ rival' = rivalAfter(id, FALSE, FALSE)
           ELSE IF latestCommit # localSha
           THEN \E success \in BOOLEAN :
                   /\ pullRepository(success)
                   /\ rival' = rivalAfter(id, TRUE, success)
                   /\ IF success
                      THEN /\ saveSha(latestCommit.v)
                           /\ taskResult' = [taskResult EXCEPT ![id] =
                                  UpdateResult(TRUE,
                                               IF localSha.some THEN localSha ELSE savedSha,
                                               latestCommit, None)]
                      ELSE /\ UNCHANGED savedSha
                           /\ taskResult' = [taskResult EXCEPT ![id] =
                                  UpdateResult(FALSE, None, None, Some("pull"))]
           ELSE /\ taskResult' = [taskResult EXCEPT
                                    ![id] = UpdateResult(FALSE, None, latestCommit, None)]
                /\ UNCHANGED <<headSha, disk, savedSha, gitPulls>>
                /\ rival' = rivalAfter(id, FALSE, FALSE)
    /\ UNCHANGED <<whaileysSrcPath, engineVars, pulls, scans, requests, response,
                   mainPc, autoUpdateEnabled, hasSrc, isGit, remoteSha, gitClones, updates>>

\* checkForUpdates up to `await fetchLatestCommit()`
StartCheckForUpdates(id) ==
    /\ mainPc \in Connected
    /\ task[id].op = "idle"
    /\ updates < MaxUpdates
    /\ updates' = updates + 1
    /\ task' = [task EXCEPT ![id] = [op |-> "checkForUpdates", pc |-> "fetching",
                                     latestCommit |-> None]]
    /\ UNCHANGED <<whaileysSrcPath, disk, engineVars, pulls, scans, requests, response,
                   mainPc, autoUpdateEnabled, rival, hasSrc, isGit, headSha, savedSha, remoteSha, taskResult,
                   gitPulls, gitClones>>

\* a check that brings the repository up to date when it finds an update
ResumeCheckForUpdatesPulling(id) ==
    /\ task[id].op = "checkForUpdates"
    /\ task[id].pc = "fetched"
    /\ task' = [task EXCEPT ![id] = IdleTask]
    /\ LET latestCommit == task[id].latestCommit
           localSha == getLocalCommitSha
       IN  /\ taskResult' = [taskResult EXCEPT ![id] =
                  Some([op |-> "checkForUpdates",
                        hasUpdate |-> latestCommit.some /\ latestCommit # localSha,
                        currentSha |-> localSha, latestSha |-> latestCommit])]
           /\ IF latestCommit.some /\ latestCommit # localSha
              THEN /\ pullRepository(TRUE)
                   /\ saveSha(latestCommit.v)
              ELSE UNCHANGED <<headSha, disk, savedSha, gitPulls>>
    /\ UNCHANGED <<whaileysSrcPath, engineVars, pulls, scans, requests, response,
                   mainPc, autoUpdateEnabled, rival, hasSrc, isGit, remoteSha, gitClones, updates>>

\* checkForUpdates after the fetch: getLocalCommitSha and the comparison
ResumeCheckForUpdates(id) ==
    /\ task[id].op = "checkForUpdates"
    /\ task[id].pc = "fetched"
    /\ task' = [task EXCEPT ![id] = IdleTask]
    /\ LET latestCommit == task[id].latestCommit
           localSha == getLocalCommitSha
       IN  taskResult' = [taskResult EXCEPT ![id] =
               IF ~latestCommit.some
               THEN Some([op |-> "checkForUpdates", hasUpdate |-> FALSE,
                          currentSha |-> None, latestSha |-> None])
               ELSE Some([op |-> "checkForUpdates",
                          hasUpdate |-> latestCommit # localSha,
                          currentSha |-> localSha, latestSha |-> latestCommit])]
    /\ UNCHANGED <<whaileysSrcPath, disk, engineVars, pulls, scans, requests, response,
                   mainPc, autoUpdateEnabled, rival, hasSrc, isGit, headSha, savedSha, remoteSha, gitPulls,
                   gitClones, updates>>

\* a commit is pushed to canove/whaileys
RemotePush ==
    /\ remoteSha < MaxCommits
    /\ remoteSha' = remoteSha + 1
    /\ UNCHANGED <<whaileysSrcPath, disk, engineVars, pulls, scans, requests, response,
                   mainPc, autoUpdateEnabled, rival, hasSrc, isGit, headSha, savedSha, task, taskResult,
                   gitPulls, gitClones, updates>>

\* a query tool request of the served process
ServeQuery ==
    /\ mainPc \in Connected
    /\ requests < MaxServed
    /\ HandleEstatisticas

\* the process starts with WHAILEYS_PATH taken from the environment (or ''),
\* with the repository present (with or without .git) or absent
InitUpdater ==
    /\ whaileysSrcPath \in {<<>>, SrcRoot}
    /\ autoUpdateEnabled \in BOOLEAN
    /\ rival = [id \in TaskIds |-> "none"]
    /\ project = {}
    /\ cachedTypes = None
    /\ pc = "idle"
    /\ types = <<>>
    /\ todo = <<>>
    /\ scanned = <<>>
    /\ pending = NoCall
    /\ result = NoResult
    /\ prevAll = None
    /\ lastAll = None
    /\ pulls = 0
    /\ scans = 0
    /\ requests = 0
    /\ response = None
    /\ mainPc = "start"
    /\ remoteSha = 1
    /\ hasSrc \in BOOLEAN
    /\ isGit \in (IF hasSrc THEN BOOLEAN ELSE {FALSE})
    /\ headSha = IF isGit THEN Some(1) ELSE None
    /\ disk = IF hasSrc THEN TreeOf(1) ELSE {}
    /\ savedSha \in (IF isGit THEN {None, Some(1)} ELSE {None})
    /\ task = [id \in TaskIds |-> IdleTask]
    /\ taskResult = [id \in TaskIds |-> None]
    /\ gitPulls = 0
    /\ gitClones = 0
    /\ updates = 0

NextUpdater ==
    \/ MainEnsureRepository
    \/ MainConnect
    \/ MainFirstCheck
    \/ MainSchedule
    \/ \E id \in TaskIds : StartCheckAndUpdate(id)
    \/ \E id \in TaskIds : FetchLatestCommitReturns(id)
    \/ \E id \in TaskIds : ResumeCheckAndUpdate(id)
    \/ StartCheckForUpdates("tool")
    \/ ResumeCheckForUpdates("tool")
    \/ RemotePush
    \/ ServeQuery

SpecUpdater == InitUpdater /\ [][NextUpdater]_vars

-----------------------------------------------------------------------------
(* Claims *)

\* the index a build over the files on disk would give now
rescanned == freshIndex(whaileysSrcPath, disk)

(* C1: for one AstParser, two calls of extractAllTypes() with no rebuild in
   between return identical results, whatever is called between them and
   whatever has happened to the source tree. *)
C1_ExtractAllTypesIdempotent == prevAll.some => lastAll = prevAll

\* a second extractAllTypes() has just returned, after the tree changed under the cache
C1_Witness ==
    /\ prevAll.some
    /\ result.op = "extractAllTypes"
    /\ pulls > 0
    /\ rescanned.ok
    /\ rescanned.types # lastAll.v

(* C2: over any sequence of query tool requests handled by one server
   process the source tree is scanned at most once. *)
C2_ScannedAtMostOnce == scans <= 1

(* C3: no query operation changes the cached index: once built, it keeps its
   records, their order and their field values over every step. *)
C3_QueriesKeepIndex == [][cachedTypes.some => cachedTypes' = cachedTypes]_vars

\* fuzzySearch has ranked the entries of a warm cache into another order
C3_Witness ==
    /\ cachedTypes.some
    /\ lastAll.some
    /\ result.op = "fuzzySearch"
    /\ Len(result.val) > 1
    /\ result.val # slice0(SelectSeq(cachedTypes.v,
                                    LAMBDA t : fuzzyScore(t, result.arg.v.q) > 0),
                          Len(result.val))

\* the candidate files among those the last started loop was given
candidatesScanned == SelectSeq(scanned, LAMBDA f : isCandidate(f.path))

(* C4: the cached index is unset or complete: while the loop of
   extractAllTypes runs it is unset, and once set it holds exactly the
   records of every candidate file the loop was given. *)
C4_IndexUnsetOrComplete ==
    /\ pc = "building" => ~cachedTypes.some
    /\ cachedTypes.some =>
         /\ \A i \in 1..Len(candidatesScanned) :
              SelectSeq(cachedTypes.v, LAMBDA t :
                  t.file = getRelativePath(whaileysSrcPath, candidatesScanned[i].path))
                = extractTypes(whaileysSrcPath, candidatesScanned[i])
         /\ Len(cachedTypes.v)
              = SeqSum([i \in 1..Len(candidatesScanned) |->
                          Len(extractTypes(whaileysSrcPath, candidatesScanned[i]))])

\* an index over two candidate files, each with records, has been published
C4_Witness ==
    /\ cachedTypes.some
    /\ Len(candidatesScanned) >= 2
    /\ \A i \in 1..Len(candidatesScanned) :
          Len(extractTypes(whaileysSrcPath, candidatesScanned[i])) > 0

(* C5: getStatistics() returns totalDeclarations equal to the sum of the
   eight byKind counts and to the sum of total over the byModule records. *)
C5_StatisticsTotalsAgree ==
    (result.op = "getStatistics") =>
        LET stats == result.val
        IN  /\ stats.totalDeclarations
                 = stats.byKind["interface"] + stats.byKind["type"]
                     + stats.byKind["enum"] + stats.byKind["function"]
                     + stats.byKind["class"] + stats.byKind["variable"]
                     + stats.byKind["namespace"] + stats.byKind["re-export"]
            /\ stats.totalDeclarations
                 = SeqSum([i \in 1..Len(stats.byModule) |-> stats.byModule[i].total])

\* statistics over an index of several kinds in several modules, re-exports among them
C5_Witness ==
    /\ result.op = "getStatistics"
    /\ result.val.totalDeclarations >= 3
    /\ Len(result.val.byModule) >= 2
    /\ result.val.byKind["re-export"] >= 1
    /\ result.val.byKind["variable"] >= 1

\* how an entry's name meets the query, letter case aside:
\* 3 equal, 2 starts with it, 1 holds it elsewhere, 0 does not hold it
nameMatch(type, query) ==
    LET lowerName == toLowerCase(type.name)
        lowerQuery == toLowerCase(query)
    IN  IF lowerName = lowerQuery THEN 3
        ELSE IF startsWith(lowerName, lowerQuery) THEN 2
        ELSE IF includes(lowerName, lowerQuery) THEN 1
        ELSE 0

\* the tokens of a query: its lowercased text cut at runs of whitespace
queryTokens(query) == splitWhitespace(toLowerCase(query))

\* neither the name nor the documentation holds the query or one of its tokens
holdsNothing(type, query) ==
    LET lowerName == toLowerCase(type.name)
        lowerDocs == toLowerCase(orEmpty(type.docs))
        texts == <<toLowerCase(query)>> \o queryTokens(query)
    IN  \A i \in 1..Len(texts) :
            ~includes(lowerName, texts[i]) /\ ~includes(lowerDocs, texts[i])

\* in `ranked`, cut from the entries of `index`, the entries of match class
\* `high` come before those of class `low`
ranksBefore(index, ranked, query, high, low) ==
    /\ \A p, q \in 1..Len(ranked) :
          (nameMatch(ranked[p], query) = low /\ nameMatch(ranked[q], query) = high)
            => q < p
    /\ (\E p \in 1..Len(ranked) : nameMatch(ranked[p], query) = low)
          => Len(SelectSeq(ranked, LAMBDA t : nameMatch(t, query) = high))
               = Len(SelectSeq(index, LAMBDA t : nameMatch(t, query) = high))

(* C6 as stated: for every index and every query, fuzzySearch ranks the
   entries whose name equals the query before those whose name only starts
   with it, and those before the entries that hold it elsewhere; an entry
   holding neither the query nor a token of it is not returned. *)
C6_RanksByMatchClass ==
    (result.op = "fuzzySearch") =>
        LET query == result.arg.v.q
        IN  /\ ranksBefore(cachedTypes.v, result.val, query, 3, 2)
            /\ ranksBefore(cachedTypes.v, result.val, query, 3, 1)
            /\ ranksBefore(cachedTypes.v, result.val, query, 2, 1)
            /\ \A p \in 1..Len(result.val) : ~holdsNothing(result.val[p], query)

(* C6 amended: the name-equal entries come before the others for queries of
   at most 9 tokens, the prefix-only entries before the substring-only ones
   for queries of at most 4 tokens; an entry holding neither the query nor a
   token of it is never returned. *)
C6_RanksByMatchClassOfShortQuery ==
    (result.op = "fuzzySearch") =>
        LET query == result.arg.v.q
            tokens == Len(queryTokens(query))
        IN  /\ tokens <= 9 =>
                 /\ ranksBefore(cachedTypes.v, result.val, query, 3, 2)
                 /\ ranksBefore(cachedTypes.v, result.val, query, 3, 1)
            /\ tokens <= 4 => ranksBefore(cachedTypes.v, result.val, query, 2, 1)
            /\ \A p \in 1..Len(result.val) : ~holdsNothing(result.val[p], query)

\* the three match classes ranked into the reverse of their index order,
\* and an entry holding nothing of the query left out
C6_Witness ==
    /\ result.op = "fuzzySearch"
    /\ Len(result.val) = 2
    /\ Len(cachedTypes.v) = 3
    /\ nameMatch(cachedTypes.v[1], result.arg.v.q) = 0
    /\ holdsNothing(cachedTypes.v[1], result.arg.v.q)
    /\ nameMatch(cachedTypes.v[2], result.arg.v.q) < nameMatch(cachedTypes.v[3], result.arg.v.q)
    /\ nameMatch(cachedTypes.v[2], result.arg.v.q) > 0
    /\ result.val = <<cachedTypes.v[3], cachedTypes.v[2]>>

\* the places of the index whose name is the query, letter case aside
equalPlaces(index, query) ==
    {i \in 1..Len(index) : toLowerCase(index[i].name) = toLowerCase(query)}

\* the places of the index whose name holds the query, letter case aside
holdingPlaces(index, query) ==
    {i \in 1..Len(index) : includes(toLowerCase(index[i].name), toLowerCase(query))}

\* the least of a non-empty set of places
firstPlace(places) == CHOOSE i \in places : \A j \in places : i <= j

(* C7: searchType returns the first entry whose name equals the query,
   letter case aside, if there is one anywhere in the index; otherwise the
   first entry whose name contains the query; otherwise nothing. *)
C7_SearchTypePrefersEqualName ==
    (result.op = "searchType") =>
        LET index == cachedTypes.v
            query == result.arg.v.q
        IN  IF equalPlaces(index, query) # {}
            THEN result.val = Some(index[firstPlace(equalPlaces(index, query))])
            ELSE IF holdingPlaces(index, query) # {}
            THEN result.val = Some(index[firstPlace(holdingPlaces(index, query))])
            ELSE result.val = None

\* the equal name was found behind an entry that only contains the query
C7_Witness ==
    /\ result.op = "searchType"
    /\ equalPlaces(cachedTypes.v, result.arg.v.q) # {}
    /\ firstPlace(holdingPlaces(cachedTypes.v, result.arg.v.q))
         < firstPlace(equalPlaces(cachedTypes.v, result.arg.v.q))
    /\ result.val.some
    /\ result.val.v.name = result.arg.v.q

(* C8: for all declarations A and B of the index, if A's extends list has a
   string containing B's name, the children getTypeHierarchy returns for B's
   name include A's name, also when other declarations share B's name up to
   letter case. *)
C8_HierarchySymmetry ==
    (result.op = "getTypeHierarchy") =>
        \A a, b \in 1..Len(cachedTypes.v) :
            (/\ cachedTypes.v[b].name = result.arg.v.q
             /\ someIncludes(cachedTypes.v[a].extends, cachedTypes.v[b].name))
              => /\ result.val.some
                 /\ \E c \in 1..Len(result.val.v.children) :
                        result.val.v.children[c] = cachedTypes.v[a].name

\* the segments of a record's file path
pathSegments(file) == split(file, "/")

(* C9: the module of every record is the first segment of the record's file
   path, relative to the source root, or "root" for a file directly under the
   source root; the name of a declared namespace has no part in it. *)
C9_ModuleIsFirstPathSegment ==
    (result.op = "extractFromFile" /\ ~result.threw) =>
        \A i \in 1..Len(result.val) :
            LET record == result.val[i]
            IN  /\ whaileysSrcPath \o <<"/">> \o record.file = result.arg.v
                /\ record.module = IF Len(pathSegments(record.file)) > 1
                                   THEN pathSegments(record.file)[1]
                                   ELSE <<"r", "o", "o", "t">>

\* the record of a namespace declared in a nested directory under another name
C9_Witness ==
    /\ result.op = "extractFromFile"
    /\ ~result.threw
    /\ \E i \in 1..Len(result.val) :
          /\ result.val[i].kind = "namespace"
          /\ Len(pathSegments(result.val[i].file)) = 3
          /\ result.val[i].module = pathSegments(result.val[i].file)[1]
          /\ result.val[i].name # result.val[i].module
          /\ pathSegments(result.val[i].file)[2] # result.val[i].module

\* the enum declarations of the file the last extractFromFile was given
enumsOfFile ==
    LET sourceFile == CHOOSE f \in disk : f.path = result.arg.v
    IN  SelectSeq(sourceFile.nodes, LAMBDA n : n.nk = "enum" /\ n.exported)

\* the records of kind enum in the result
enumRecords == SelectSeq(result.val, LAMBDA t : t.kind = "enum")

(* C10: for an enum of n members the record's members list holds all n
   members in order, and the signature shows the first min(n, 5) members and
   no other, followed by a +(n-5) indicator if and only if n > 5. *)
C10_EnumSignatureShowsFirstFive ==
    (result.op = "extractFromFile" /\ ~result.threw) =>
        /\ Len(enumRecords) = Len(enumsOfFile)
        /\ \A e \in 1..Len(enumRecords) :
              LET record == enumRecords[e]
                  declared == enumsOfFile[e].enumMembers
                  n == Len(declared)
              IN  /\ record.members.some
                  /\ Len(record.members.v) = n
                  /\ \A i \in 1..n :
                        /\ startsWith(record.members.v[i], declared[i].name \o <<" ", "=", " ">>)
                        /\ includes(record.signature, record.members.v[i]) <=> i <= 5
                  /\ includes(record.signature, <<"(", "+">>) <=> n > 5
                  /\ n > 5 => includes(record.signature,
                                       <<"(", "+">> \o numberToString(n - 5) \o <<")">>)

\* an enum of 8 members: 8 in the list, 5 and +3 in the signature
C10_Witness ==
    /\ result.op = "extractFromFile"
    /\ ~result.threw
    /\ Len(enumRecords) = 1
    /\ Len(enumRecords[1].members.v) = 8
    /\ includes(enumRecords[1].signature, <<"(", "+", "3", ")">>)
    /\ includes(enumRecords[1].signature, enumRecords[1].members.v[5])
    /\ ~includes(enumRecords[1].signature, enumRecords[1].members.v[6])

\* the file the last extractFromFile was given
fileOfResult == CHOOSE f \in disk : f.path = result.arg.v

\* the exported variable declarations of that file
variablesOfFile ==
    SelectSeq(fileOfResult.nodes, LAMBDA n : n.nk = "variable" /\ n.exported)

\* the records of kind variable in the result
variableRecords == SelectSeq(result.val, LAMBDA t : t.kind = "variable")

(* C11: the value of a variable record is the initializer verbatim when it
   has at most 100 characters, and for a longer initializer a rendering of at
   most 100 characters: a cut of the initializer ending in the marker "...". *)
C11_ValueAtMostHundred ==
    (result.op = "extractFromFile" /\ ~result.threw) =>
        /\ Len(variableRecords) = Len(variablesOfFile)
        /\ \A v \in 1..Len(variableRecords) :
              LET declared == variablesOfFile[v].initializer
                  value == variableRecords[v].value
              IN  /\ value.some <=> declared.some
                  /\ (declared.some /\ Len(declared.v) <= 100) => value.v = declared.v
                  /\ (declared.some /\ Len(declared.v) > 100) =>
                        /\ Len(value.v) <= 100
                        /\ \E k \in 0..Len(declared.v) :
                              value.v = SubSeq(declared.v, 1, k) \o <<".", ".", ".">>

\* the export clauses of that file that name a source and are of one of the two forms
reExportClauses ==
    SelectSeq(fileOfResult.nodes, LAMBDA n :
        /\ n.nk = "export"
        /\ n.moduleSpecifier.some
        /\ n.isNamespaceExport \/ Len(n.namedExports) > 0)

\* the records of kind re-export in the result
reExportRecords == SelectSeq(result.val, LAMBDA t : t.kind = "re-export")

(* C12: each re-export clause yields at most one record: `export * from S`
   one record with reExportSource = S and no members, a named re-export one
   record with reExportSource = S and the rendered names in order ("original
   as alias" when aliased) as members, a clause of neither form no record. *)
C12_ReExportShapes ==
    (result.op = "extractFromFile" /\ ~result.threw) =>
        /\ Len(reExportRecords) = Len(reExportClauses)
        /\ \A c \in 1..Len(reExportClauses) :
              LET clause == reExportClauses[c]
                  record == reExportRecords[c]
              IN  /\ record.reExportSource = Some(clause.moduleSpecifier.v)
                  /\ IF clause.isNamespaceExport
                     THEN orEmpty(record.members) = <<>>
                     ELSE record.members =
                            Some([j \in 1..Len(clause.namedExports) |->
                                   IF clause.namedExports[j].alias.some
                                   THEN clause.namedExports[j].name
                                          \o <<" ", "a", "s", " ">>
                                          \o clause.namedExports[j].alias.v
                                   ELSE clause.namedExports[j].name])

\* a file of four export clauses gave two records: the aliased names, then the star
C12_Witness ==
    /\ result.op = "extractFromFile"
    /\ ~result.threw
    /\ Len(SelectSeq(fileOfResult.nodes, LAMBDA n : n.nk = "export")) = 4
    /\ Len(reExportRecords) = 2
    /\ reExportRecords[1].members = Some(<<<<"x">>, <<"y", " ", "a", "s", " ", "z">>>>)
    /\ reExportRecords[1].reExportSource = Some(<<".", "/", "b">>)
    /\ reExportRecords[2].reExportSource = Some(<<".", "/", "a">>)
    /\ ~reExportRecords[2].members.some

\* the fields of a record that are set
hasField(record, field) == record[field].some

(* C13: every record has a kind among the eight defined values and carries
   no field that is illegal for its kind: properties and methods only on
   interface and class records, value only on variable records,
   fullSignature only on type records, reExportSource only on re-export
   records, members only on enum, namespace and re-export records. *)
C13_KindCompleteness ==
    (result.op = "extractFromFile" /\ ~result.threw) =>
        \A i \in 1..Len(result.val) :
            LET record == result.val[i]
            IN  /\ record.kind \in {"interface", "type", "enum", "function", "class",
                                    "variable", "namespace", "re-export"}
                /\ hasField(record, "properties") => record.kind \in {"interface", "class"}
                /\ hasField(record, "methods") => record.kind \in {"interface", "class"}
                /\ hasField(record, "value") => record.kind = "variable"
                /\ hasField(record, "fullSignature") => record.kind = "type"
                /\ hasField(record, "reExportSource") => record.kind = "re-export"
                /\ hasField(record, "members") =>
                      record.kind \in {"enum", "namespace", "re-export"}

\* one file gave records of all eight kinds, each with the fields of its kind
C13_Witness ==
    /\ result.op = "extractFromFile"
    /\ ~result.threw
    /\ \A k \in {"interface", "type", "enum", "function", "class", "variable",
                  "namespace", "re-export"} :
          \E i \in 1..Len(result.val) : result.val[i].kind = k
    /\ \A i \in 1..Len(result.val) :
          LET record == result.val[i]
          IN  /\ record.kind \in {"interface", "class"} =>
                    hasField(record, "properties") /\ hasField(record, "methods")
              /\ record.kind = "variable" => hasField(record, "value")
              /\ record.kind = "type" => hasField(record, "fullSignature")
              /\ record.kind \in {"enum", "namespace"} => hasField(record, "members")
              /\ record.kind = "re-export" => hasField(record, "reExportSource")

(* C14: a kind filter called with a value outside the eight defined kinds
   ends in an error outcome, never in a result set. *)
C14_UnknownKindFails ==
    (/\ result.op = "getTypesByKind"
     /\ result.arg.v.q \notin {"interface", "type", "enum", "function", "class",
                               "variable", "namespace", "re-export"})
      => result.threw

\* the candidate files of the last started loop on which extraction fails
failingScanned == SelectSeq(candidatesScanned, extractTypesThrows)

\* the candidate files of the last started loop on which extraction succeeds
soundScanned == SelectSeq(candidatesScanned, LAMBDA f : ~extractTypesThrows(f))

(* C15: a source file whose extraction fails is skipped during index
   construction: the call that builds the index returns normally, and the
   index holds no record of the failing file and the records of every other
   candidate file. *)
C15_FailingFileSkipped ==
    (result.op # "none" /\ Len(failingScanned) > 0) =>
        /\ ~result.threw
        /\ cachedTypes.some
        /\ \A i \in 1..Len(failingScanned) :
              SelectSeq(cachedTypes.v, LAMBDA t :
                  t.file = getRelativePath(whaileysSrcPath, failingScanned[i].path)) = <<>>
        /\ \A i \in 1..Len(soundScanned) :
              SelectSeq(cachedTypes.v, LAMBDA t :
                  t.file = getRelativePath(whaileysSrcPath, soundScanned[i].path))
                = extractTypes(whaileysSrcPath, soundScanned[i])

-----------------------------------------------------------------------------
(* The auto-updater.                                                      *)

\* the steps of the task `id` while it runs the operation `op`
stepOf(id, op) ==
    /\ task'[id] # task[id]
    /\ op \in {task[id].op, task'[id].op}

\* C16: checkForUpdates only verifies: none of its steps, the failed fetch
\* included, moves HEAD, touches the tree or the saved SHA, or runs git pull
\* or git clone.
C16_CheckForUpdatesOnlyVerifies ==
    [][\A id \in TaskIds :
          stepOf(id, "checkForUpdates")
              => UNCHANGED <<headSha, savedSha, disk, hasSrc, isGit, gitPulls, gitClones>>]_vars

\* a check has reported an update and no pull has run
C16_Witness ==
    /\ taskResult["tool"].some
    /\ taskResult["tool"].v.op = "checkForUpdates"
    /\ taskResult["tool"].v.hasUpdate
    /\ gitPulls = 0
    /\ headSha # Some(remoteSha)

\* the step in which the checkAndUpdate of task `id` compares and returns
returnsFromUpdate(id) ==
    /\ task[id].op = "checkAndUpdate"
    /\ task[id].pc = "fetched"
    /\ task'[id].op = "idle"

\* C17: checkAndUpdate compares the fetched remote SHA with the HEAD SHA and
\* runs git pull exactly when they differ; the cache is written only in the
\* step whose pull succeeded, with the fetched SHA; a failed fetch, a failed
\* pull and an up-to-date repository leave the cache as it was and return
\* updated = false; no earlier step of the update pulls or writes the cache.
C17_UpdateStepsOrdered ==
    [][\A id \in TaskIds :
          /\ returnsFromUpdate(id) =>
                LET latestCommit == task[id].latestCommit
                    differ == latestCommit.some /\ latestCommit # headSha
                    pulled == gitPulls' = gitPulls + 1
                    updateResult == taskResult'[id].v
                IN  /\ gitPulls' = IF differ THEN gitPulls + 1 ELSE gitPulls
                    /\ savedSha' # savedSha =>
                          /\ pulled
                          /\ updateResult.updated
                          /\ savedSha' = latestCommit
                    /\ updateResult.updated => pulled /\ ~updateResult.error.some
                    /\ (~latestCommit.some \/ ~differ \/ updateResult.error.some) =>
                          /\ ~updateResult.updated
                          /\ savedSha' = savedSha
                          /\ headSha' = headSha
          /\ (stepOf(id, "checkAndUpdate") /\ ~returnsFromUpdate(id)) =>
                UNCHANGED <<savedSha, gitPulls, headSha>>]_vars

\* an update was applied: one pull, the fetched SHA in the cache
C17_Witness ==
    \E id \in TaskIds :
        /\ taskResult[id].some
        /\ taskResult[id].v.op = "checkAndUpdate"
        /\ taskResult[id].v.updated
        /\ gitPulls = 1
        /\ savedSha = taskResult[id].v.currentSha
        /\ task[id].op = "idle"

\* some checkAndUpdate has returned updated = true
updateApplied ==
    \E id \in TaskIds :
        /\ taskResult[id].some
        /\ taskResult[id].v.op = "checkAndUpdate"
        /\ taskResult[id].v.updated

\* the answer of whaileys_estatisticas over the source tree of commit `sha`
statisticsOfCommit(sha) ==
    Response("whaileys_estatisticas", FALSE,
             getStatistics(freshIndex(whaileysSrcPath, TreeOf(sha)).types))

\* C18: once an update has been applied, every query tool request is answered
\* from an index built from the tree of the commit HEAD is at, whether the
\* update came from the tool or from the scheduled check.
C18_QueriesSeeUpdatedTree ==
    [][(updateApplied /\ requests' = requests + 1)
          => response' = statisticsOfCommit(headSha.v)]_vars

\* a request after the update from commit 1 to commit 2 was answered from the
\* tree of commit 2, which differs from the answer over the tree of commit 1
C18_Witness ==
    /\ updateApplied
    /\ gitClones = 0
    /\ headSha = Some(2)
    /\ response = statisticsOfCommit(2)
    /\ statisticsOfCommit(2) # statisticsOfCommit(1)

-----------------------------------------------------------------------------
(* fuzzySearch and getTypeHierarchy as functions of the index.            *)

\* the score of each place of the index for the query
scoresOf(all, query) == [i \in 1..Len(all) |-> fuzzyScore(all[i], query)]

\* the places whose entry scores above 0
scoringPlaces(scores) == {i \in DOMAIN scores : scores[i] > 0}

\* the place of the index entry i in the ranking: one more than the number of
\* scoring entries with a higher score, or the same score and an earlier place
rankOf(scores, i) ==
    1 + Cardinality({j \in scoringPlaces(scores) :
            \/ scores[j] > scores[i]
            \/ scores[j] = scores[i] /\ j < i})

\* C19: for a limit of 0 or more, fuzzySearch returns the first `limit`
\* entries (all of them when there are fewer) of the ranking of the entries
\* that score above 0, by non-increasing score and, among equal scores, by
\* place in the index.
C19_FuzzySearchRanksAndTruncates ==
    (result.op = "fuzzySearch") =>
        LET all == cachedTypes.v
            limit == result.arg.v.n
            scores == scoresOf(all, result.arg.v.q)
            scoring == scoringPlaces(scores)
        IN  /\ Len(result.val) = IF Cardinality(scoring) < limit
                                 THEN Cardinality(scoring) ELSE limit
            /\ \A i \in scoring :
                  rankOf(scores, i) <= limit => result.val[rankOf(scores, i)] = all[i]

\* three scoring entries cut to two: the second outranks the first, and the
\* two of equal score come back in their index order
C19_Witness ==
    /\ result.op = "fuzzySearch"
    /\ result.arg.v.n = 2
    /\ LET all == cachedTypes.v
           scores == scoresOf(all, result.arg.v.q)
       IN  /\ Cardinality(scoringPlaces(scores)) = 3
           /\ Len(result.val) = 2
           /\ \E i, j \in scoringPlaces(scores) :
                 /\ i < j
                 /\ all[i] # all[j]
                 /\ scores[i] = scores[j]
                 /\ result.val = <<all[i], all[j]>>
           /\ result.val # SubSeq(all, 1, 2)

\* how many entries of the sequence `names` are `name`
occurrences(names, name) ==
    Cardinality({c \in 1..Len(names) : names[c] = name})

\* C20: getTypeHierarchy(name) is absent when no declaration name equals name
\* case-insensitively; otherwise parents is the target's extends list followed
\* by its implements list, and children holds exactly one entry for every
\* declaration other than the target whose extends or implements list has a
\* string including the target's name, and none for the target itself.
C20_HierarchyOfTarget ==
    (result.op = "getTypeHierarchy") =>
        LET all == cachedTypes.v
            matching == {i \in 1..Len(all) :
                            toLowerCase(all[i].name) = toLowerCase(result.arg.v.q)}
        IN  IF matching = {}
            THEN ~result.val.some
            ELSE LET target == CHOOSE i \in matching : \A j \in matching : i <= j
                     under == {i \in 1..Len(all) \ {target} :
                                  \/ someIncludes(all[i].extends, all[target].name)
                                  \/ someIncludes(all[i].implements, all[target].name)}
                     children == result.val.v.children
                 IN  /\ result.val.some
                     /\ result.val.v.type = all[target]
                     /\ result.val.v.parents =
                           orEmpty(all[target].extends) \o orEmpty(all[target].implements)
                     /\ \A i \in 1..Len(all) :
                           occurrences(children, all[i].name) =
                              Cardinality({j \in under : all[j].name = all[i].name})
                     /\ Len(children) = Cardinality(under)

-----------------------------------------------------------------------------
(* Statistics, dependencies and the filters as functions of the index.    *)

\* the modules of the index
modulesOf(all) == {all[i].module : i \in 1..Len(all)}

\* C21: byModule holds exactly one record per distinct module of the index,
\* each record's total is the sum of its eight per-kind counts, the records
\* are in non-increasing order of total; byKind has the eight kind keys, each
\* the number of declarations of that kind, zero when there is none.
C21_StatisticsByModuleAndKind ==
    (result.op = "getStatistics") =>
        LET all == cachedTypes.v
            byModule == result.val.byModule
            byKind == result.val.byKind
        IN  /\ {byModule[m].module : m \in 1..Len(byModule)} = modulesOf(all)
            /\ Len(byModule) = Cardinality(modulesOf(all))
            /\ \A m \in 1..Len(byModule) :
                  byModule[m].total =
                     byModule[m].interfaces + byModule[m].types + byModule[m].enums
                       + byModule[m].functions + byModule[m].classes
                       + byModule[m].variables + byModule[m].namespaces
                       + byModule[m].reExports
            /\ \A m \in 1..Len(byModule) :
                  byModule[m].total =
                     Cardinality({i \in 1..Len(all) : all[i].module = byModule[m].module})
            /\ \A m \in 1..Len(byModule) - 1 : byModule[m].total >= byModule[m + 1].total
            /\ DOMAIN byKind = {"interface", "type", "enum", "function", "class",
                                "variable", "namespace", "re-export"}
            /\ \A k \in DOMAIN byKind :
                  byKind[k] = Cardinality({i \in 1..Len(all) : all[i].kind = k})

\* the module seen second has more declarations and comes first; a kind
\* without declarations is counted zero
C21_Witness ==
    /\ result.op = "getStatistics"
    /\ Len(result.val.byModule) = 2
    /\ result.val.byModule[1].total > result.val.byModule[2].total
    /\ result.val.byModule[2].module = cachedTypes.v[1].module
    /\ result.val.byKind["enum"] = 0
    /\ result.val.byKind["interface"] > 0

\* the entries of the index in the module, in index order
recordsOfModule(all, module) == SelectSeq(all, LAMBDA t : t.module = module)

\* C22: analyzeDependencies returns exactly one record per distinct module of
\* the index; a module's exports are the names of all its records in index
\* order, so the export lists together have as many entries as the index; its
\* reExportsFrom are the reExportSource values of its re-export records only;
\* imports is always empty.
C22_DependenciesPerModule ==
    (result.op = "analyzeDependencies") =>
        LET all == cachedTypes.v
            deps == result.val
        IN  /\ {deps[d].module : d \in 1..Len(deps)} = modulesOf(all)
            /\ Len(deps) = Cardinality(modulesOf(all))
            /\ \A d \in 1..Len(deps) :
                  LET own == recordsOfModule(all, deps[d].module)
                      reExports == SelectSeq(own, LAMBDA t : t.kind = "re-export")
                  IN  /\ deps[d].exports = [i \in 1..Len(own) |-> own[i].name]
                      /\ deps[d].reExportsFrom =
                            [i \in 1..Len(reExports) |-> reExports[i].reExportSource.v]
                      /\ deps[d].imports = <<>>
            /\ SeqSum([d \in 1..Len(deps) |-> Len(deps[d].exports)]) = Len(all)

\* two re-exports of one module with a variable of another module between
\* them in the index: the variable's module re-exports from nothing
C22_Witness ==
    /\ result.op = "analyzeDependencies"
    /\ Len(cachedTypes.v) = 3
    /\ cachedTypes.v[1].kind = "re-export"
    /\ cachedTypes.v[2].kind = "variable"
    /\ cachedTypes.v[3].kind = "re-export"
    /\ cachedTypes.v[1].name # cachedTypes.v[3].name
    /\ Len(result.val) = 2
    /\ result.val[1].exports = <<cachedTypes.v[1].name, cachedTypes.v[3].name>>
    /\ Len(result.val[1].reExportsFrom) = 2
    /\ result.val[2].exports = <<cachedTypes.v[2].name>>
    /\ result.val[2].reExportsFrom = <<>>

\* the entries of `all` at the places `at`, in index order, as the sequence
\* `selected`: the entry of a place is at its rank among the places
isSelection(selected, all, at) ==
    /\ Len(selected) = Cardinality(at)
    /\ \A i \in at : selected[Cardinality({j \in at : j <= i})] = all[i]

\* C23: getTypesFromModule(m) returns, in index order, exactly the entries
\* whose module equals m or whose file path contains m, letter case aside;
\* getTypesByKind(k) returns, in index order, exactly the entries of kind k.
C23_FiltersSelectInIndexOrder ==
    LET all == cachedTypes.v
    IN  /\ (result.op = "getTypesFromModule") =>
              LET m == toLowerCase(result.arg.v.q)
              IN  isSelection(result.val, all,
                      {i \in 1..Len(all) :
                          \/ toLowerCase(all[i].module) = m
                          \/ includes(toLowerCase(all[i].file), m)})
        /\ (result.op = "getTypesByKind") =>
              isSelection(result.val, all,
                  {i \in 1..Len(all) : all[i].kind = result.arg.v.q})

\* the first and third entries are of module root, whose files are not under
\* a directory of that name, and come back without the second
C23_Witness ==
    /\ result.op = "getTypesFromModule"
    /\ result.arg.v.q = <<"r","o","o","t">>
    /\ Len(cachedTypes.v) = 3
    /\ cachedTypes.v[1] # cachedTypes.v[3]
    /\ ~includes(cachedTypes.v[1].file, result.arg.v.q)
    /\ result.val = <<cachedTypes.v[1], cachedTypes.v[3]>>

-----------------------------------------------------------------------------
(* The files the index covers, the records of one file, failed builds.    *)

\* a file that is in no tests directory and is no declaration-only file
inNoTestsDirectory(filePath) ==
    /\ \A s \in 1..Len(pathSegments(filePath)) :
          pathSegments(filePath)[s] # <<"T","e","s","t","s">>
    /\ ~endsWith(filePath, <<".","d",".","t","s">>)

\* C24: the index covers exactly the candidate files: a file of the scan
\* contributes its exported declarations if and only if no segment of its
\* path is the tests directory and it is no .d.ts file; the text "Tests"
\* inside a longer segment does not drop it.
C24_IndexCoversCandidates ==
    cachedTypes.some =>
        \A i \in 1..Len(scanned) :
            LET records == SelectSeq(cachedTypes.v, LAMBDA t :
                               t.file = getRelativePath(whaileysSrcPath, scanned[i].path))
            IN  records = IF inNoTestsDirectory(scanned[i].path)
                          THEN extractTypes(whaileysSrcPath, scanned[i])
                          ELSE <<>>

\* the candidate files of the scan, in scan order
indexedFiles == SelectSeq(scanned, LAMBDA f : isCandidate(f.path))

\* the records of the index that carry the path of the file
recordsOfFile(f) ==
    SelectSeq(cachedTypes.v, LAMBDA t :
        t.file = getRelativePath(whaileysSrcPath, f.path))

\* the exported top-level declarations of the file
exportedDeclarations(f) == SelectSeq(f.nodes, LAMBDA n : n.nk # "export" /\ n.exported)

\* the declarations of the file that are not exported
hiddenDeclarations(f) == SelectSeq(f.nodes, LAMBDA n : n.nk # "export" /\ ~n.exported)

\* the re-export clauses of the file: export clauses that name a source
reExportClausesOf(f) ==
    SelectSeq(f.nodes, LAMBDA n : n.nk = "export" /\ n.moduleSpecifier.some)

\* the re-export clauses that are `export *` or list at least one name
formedReExportClauses(f) ==
    SelectSeq(reExportClausesOf(f), LAMBDA n :
        n.isNamespaceExport \/ Len(n.namedExports) > 0)

\* the index holds `count(f)` records for each file, among them one of the
\* name of each exported declaration and none of the name of a declaration
\* that is not exported, and as many records as the files together give
oneRecordPerDeclaration(clauses(_)) ==
    /\ \A i \in 1..Len(indexedFiles) :
          LET f == indexedFiles[i]
          IN  /\ Len(recordsOfFile(f)) = Len(exportedDeclarations(f)) + Len(clauses(f))
              /\ \A d \in 1..Len(exportedDeclarations(f)) :
                    \E r \in 1..Len(recordsOfFile(f)) :
                        recordsOfFile(f)[r].name = exportedDeclarations(f)[d].name
              /\ \A d \in 1..Len(hiddenDeclarations(f)) :
                    \A r \in 1..Len(recordsOfFile(f)) :
                        recordsOfFile(f)[r].name # hiddenDeclarations(f)[d].name
    /\ Len(cachedTypes.v) =
          SeqSum([i \in 1..Len(indexedFiles) |-> Len(recordsOfFile(indexedFiles[i]))])

\* C25 as stated: one record per exported top-level declaration plus one per
\* re-export clause, none for a declaration that is not exported, and no
\* deduplication across files.
C25_OneRecordPerDeclarationAndClause ==
    cachedTypes.some => oneRecordPerDeclaration(reExportClausesOf)

\* C25 as amended: one record per exported top-level declaration plus one per
\* re-export clause that is `export * from` or lists at least one name, none
\* for a declaration that is not exported, for a clause without a source or
\* for `export {} from`, and no deduplication across files.
C25_OneRecordPerDeclarationAndFormedClause ==
    cachedTypes.some => oneRecordPerDeclaration(formedReExportClauses)

\* an index of two files that both export the name Status, one of them with a
\* declaration that is not exported and an `export {} from` clause
C25_Witness ==
    /\ cachedTypes.some
    /\ Len(indexedFiles) = 2
    /\ Len(hiddenDeclarations(indexedFiles[1])) = 1
    /\ Len(reExportClausesOf(indexedFiles[1])) = 2
    /\ Len(recordsOfFile(indexedFiles[1])) = 4
    /\ \E r, s \in 1..Len(cachedTypes.v) :
          /\ cachedTypes.v[r].name = cachedTypes.v[s].name
          /\ cachedTypes.v[r].file # cachedTypes.v[s].file

\* the records a complete build over the scanned files gives
completeIndexLength ==
    SeqSum([i \in 1..Len(indexedFiles) |->
               Len(extractTypes(whaileysSrcPath, indexedFiles[i]))])

\* C26: a build that aborts on a file caches nothing and returns nothing;
\* whatever a later call returns comes from a complete index; a call that
\* finds no cached index starts the loop again over every file of the
\* project, with no record kept from the aborted build.
C26_AbortedBuildCachesNothing ==
    [][/\ (result' # result /\ result'.threw) =>
             /\ ~cachedTypes'.some
             /\ result'.val = None
             /\ pc' = "idle"
             /\ types' = <<>>
       /\ (result' # result /\ result'.op # "none" /\ ~result'.threw) =>
             /\ cachedTypes'.some
             /\ scanned' = scanned
             /\ Len(cachedTypes'.v) = completeIndexLength
       /\ (pending = NoCall /\ pending' # NoCall) =>
             /\ ~cachedTypes.some
             /\ pc' = "building"
             /\ types' = <<>>
             /\ {todo'[i] : i \in 1..Len(todo')} = project'
             /\ \A f \in disk : matchesGlob(whaileysSrcPath, f.path) =>
                   \E g \in project' : g.path = f.path]_vars

\* a build over index.ts and Utils/broken.ts aborted after index.ts, the
\* broken file then left the tree, and the next call built again and
\* aborted as well
C26_Witness ==
    /\ result.threw
    /\ ~cachedTypes.some
    /\ pulls = 1
    /\ BrokenFile \notin disk
    /\ project = {IndexFile, BrokenFile}
    /\ scanned = <<IndexFile, BrokenFile>>

\* the texts of a query that can be looked for: the query itself and its
\* whitespace-delimited tokens, the empty ones left out
searchTexts(query) ==
    SelectSeq(<<toLowerCase(query)>> \o splitWhitespace(toLowerCase(query)),
              LAMBDA text : Len(text) > 0)

\* C27: every entry fuzzySearch returns has a name or documentation text that
\* holds, letter case aside, the whole query or one of its non-empty tokens;
\* an empty query, or a query with whitespace at an end, returns no entry
\* that holds none of the non-empty tokens.
C27_FuzzyResultsHoldTheQuery ==
    (result.op = "fuzzySearch") =>
        \A p \in 1..Len(result.val) :
            \E t \in 1..Len(searchTexts(result.arg.v.q)) :
                \/ includes(toLowerCase(result.val[p].name), searchTexts(result.arg.v.q)[t])
                \/ includes(toLowerCase(orEmpty(result.val[p].docs)),
                            searchTexts(result.arg.v.q)[t])
-----------------------------------------------------------------------------
(* main(): the order of start-up.                                          *)

\* a request was handled, or a task of the updater moved, in this step
handlesOrChecks ==
    \/ requests' # requests
    \/ response' # response
    \/ task' # task
    \/ taskResult' # taskResult

\* C28: main() connects the transport only from the state in which
\* ensureRepository has succeeded and WHAILEYS_PATH is the resolved source path,
\* and only a connected process handles a request or runs a check; a failed
\* ensureRepository ends the process, which never connects afterwards; the
\* first check and the schedule (the timer's checks) come after the connection
\* and only when AUTO_UPDATE_ENABLED is not 'false'.
C28_StartupOrdering ==
    [][/\ (mainPc' = "connected" /\ mainPc # "connected") =>
              /\ mainPc = "ensured"
              /\ hasSrc
              /\ whaileysSrcPath = SrcRoot
       /\ (mainPc' = "ensured" /\ mainPc # "ensured") =>
              /\ mainPc = "start"
              /\ hasSrc'
              /\ whaileysSrcPath' = SrcRoot
       /\ handlesOrChecks =>
              /\ mainPc \in Connected
              /\ hasSrc
              /\ whaileysSrcPath = SrcRoot
       /\ (mainPc' = "exited" /\ mainPc # "exited") =>
              /\ mainPc = "start"
              /\ ~hasSrc'
       /\ mainPc = "exited" => mainPc' = "exited"
       /\ (mainPc' = "checking" /\ mainPc # "checking") =>
              /\ mainPc = "connected"
              /\ autoUpdateEnabled
       /\ (mainPc' = "serving" /\ mainPc # "serving") =>
              mainPc = IF autoUpdateEnabled THEN "checking" ELSE "connected"
       /\ task'["timer"] # task["timer"] =>
              /\ autoUpdateEnabled
              /\ mainPc = "serving"
       /\ mainPc \in Connected => mainPc' \in Connected
       /\ autoUpdateEnabled' = autoUpdateEnabled]_vars

\* the repository was cloned at start-up from an empty WHAILEYS_PATH, the
\* process connected and answered a request, and the scheduled check ran
C28_Witness ==
    /\ mainPc = "serving"
    /\ autoUpdateEnabled
    /\ gitClones = 1
    /\ whaileysSrcPath = SrcRoot
    /\ requests = 1
    /\ taskResult["timer"].some

-----------------------------------------------------------------------------
(* checkAndUpdate: what it saves and reports, and two of them at once.     *)

\* C29: a checkAndUpdate that returns updated = true reports as currentSha,
\* and has saved to the cache if it wrote the cache, the SHA HEAD is at after
\* its pull.
C29_SavedShaIsHead ==
    [][\A id \in TaskIds :
          (returnsFromUpdate(id) /\ taskResult'[id].v.updated) =>
              /\ taskResult'[id].v.currentSha = headSha'
              /\ savedSha' # savedSha => savedSha' = headSha']_vars

\* no step moves both tasks, and the step in which a checkAndUpdate returns is
\* the only step of a task that reads HEAD, pulls and writes the cache
oneCallerAtATime ==
    /\ \A id \in TaskIds : task'[id] # task[id] => task'[otherTask(id)] = task[otherTask(id)]
    /\ (gitPulls' # gitPulls \/ savedSha' # savedSha) =>
          \/ mainPc = "start"
          \/ \E id \in TaskIds : /\ returnsFromUpdate(id)
                                 /\ gitPulls' \in {gitPulls, gitPulls + 1}

\* C30 as stated: of two checkAndUpdate calls that held the same fetched
\* commit at once, the second to return neither runs git pull nor returns
\* updated = true, whether the pull of the first succeeded (moving HEAD to
\* that commit) or failed, and their steps are not interleaved.
C30_OnePullPerCommit ==
    [][/\ oneCallerAtATime
       /\ \A id \in TaskIds :
             (returnsFromUpdate(id) /\ rival[id] \in {"failed", "updated"}) =>
                 /\ gitPulls' = gitPulls
                 /\ ~taskResult'[id].v.updated]_vars

\* C30: of two checkAndUpdate calls that held the same fetched commit at once,
\* the second to return neither runs git pull nor returns updated = true when
\* the pull of the first succeeded and moved HEAD to that commit, and runs git
\* pull itself when the pull of the first failed; at most one of the two
\* returns updated = true, and their steps are not interleaved.
C30_OneUpdatePerCommit ==
    [][/\ oneCallerAtATime
       /\ \A id \in TaskIds :
             returnsFromUpdate(id) =>
                 /\ rival[id] = "updated" =>
                       /\ UNCHANGED <<gitPulls, headSha, savedSha, disk>>
                       /\ ~taskResult'[id].v.updated
                       /\ taskResult'[id].v.currentSha = headSha
                 /\ rival[id] = "failed" =>
                       /\ gitPulls' = gitPulls + 1]_vars

\* the timer's check and the tool's update held commit 2 at once; the first to
\* return pulled and returned updated = true, the second found HEAD at commit
\* 2, did not pull and returned updated = false
C30_Witness ==
    \E id \in TaskIds :
        /\ rival[id] = "updated"
        /\ task[id].op = "idle"
        /\ task[otherTask(id)].op = "idle"
        /\ taskResult[id] = UpdateResult(FALSE, None, Some(2), None)
        /\ taskResult[otherTask(id)].v.updated
        /\ taskResult[otherTask(id)].v.currentSha = Some(2)
        /\ headSha = Some(2)
        /\ gitPulls = 1
        /\ updates = 2
====
